---- MODULE Spec2Model ----
(***************************************************************************)
(* Model of npm-dev-mcp: the process supervisor (ProcessManager, the       *)
(* Map-based version in src/src/components/EnvLoader.ts:298-667) and the   *)
(* state store (StateManager, src/src/components/StateManager.ts:415-837). *)
(*                                                                         *)
(* Every `await` of the code is a suspension point and ends an action;     *)
(* the synchronous prefix of an async function runs in the action of its   *)
(* caller.  The OS process table, the child's events and the file system   *)
(* are the environment.                                                    *)
(***************************************************************************)
EXTENDS Integers, FiniteSets, Sequences, TLC

\* ------------------------------------------------------------ bounds ----
MaxEntries == 2      \* children / registry objects existing at once
MaxCalls   == 2      \* supervisor calls in flight at once
MaxOps     == 3      \* supervisor calls made in one run
MaxSaves   == 2      \* saveState calls in flight at once
MaxClock   == 2      \* milliseconds the clock advances

Keys   == {"a", "b"}                 \* working directories
CoreKeys == {"a"}                    \* the directory the calls of Spec are about
Calls  == 1..MaxCalls
Savers == 1..MaxSaves

KeyIdx(k) == IF k = "a" THEN 1 ELSE 2
\* a process left by the previous run of the server, recorded in the snapshot
OldPid(k) == 100 + KeyIdx(k)
OldPids   == {OldPid(k) : k \in Keys}
\* the registry object created for a restored process
RestoredId(k) == MaxEntries + KeyIdx(k)
SpawnIds  == 1..MaxEntries
EntryIds  == 1..(MaxEntries + 2)
Pids      == SpawnIds \cup OldPids

VARIABLES
  processes,   \* ProcessManager.processes: directory -> registry object (0: none)
  info,        \* the RunningProcess objects: dir, pid, status, child handle
  alive,       \* OS process table: the pids that exist
  pend,        \* child events emitted by node and not yet delivered
  bound,       \* per child: the registry object its event handlers change
  calls,       \* start/stop/restart calls and where each stands
  restore,     \* restoreProcessState, started by the constructor
  made,        \* number of start/stop/restart calls made so far
  lastStart,   \* history: object the last start(k) returned, no stop(k) since it began
  ret,         \* history: how the call that returned in the last step ended
  stateFile,   \* ~/.npm-dev-mcp/state.json
  lockFile,    \* ~/.npm-dev-mcp/state.lock exists
  saves,       \* saveState calls in flight
  clock,       \* Date.now(), in milliseconds
  backups,     \* state.json.backup.<ms> files
  lastSave,    \* history: the save that wrote stateFile last
  lastSkip,    \* history: the saves in flight when the last saveState call was skipped
  loaded,      \* history: the loadState() that returned in the last step
  ensure,      \* the ensureStateConsistency() call in flight, or the last one done
  lastHealthCheck,  \* HealthChecker.lastHealthCheck
  recover,     \* the autoRecover() call and where it stands
  serviceStatus,    \* MCPServerInitializer.serviceStatus
  servicePromises,  \* MCPServerInitializer.servicePromises: the promise kept per service
  inits,       \* the initFn invocations in flight, and how many were made
  waits,       \* the initializeService / waitForService calls that have not settled
  checks,      \* dependencyCheckPromises and the checks behind them
  background,  \* the startBackgroundInitialization() call
  healthCheckInterval,  \* HealthChecker.healthCheckInterval: a timer, or 0 for null
  timers,      \* the interval timers of node that are active
  env,         \* process.env: the variables the configuration is read from
  config,      \* what validateServerConfig(process.env) returned or threw
  constructed, \* new MCPServerInitializer(): not yet called (no), ok, failed
  portTimers,  \* the delayed port detections startDevServer has scheduled
  errorHandlers,  \* whose listeners for uncaught errors are installed: index, safe
  recoveries,  \* SafeErrorHandler.attemptRecovery: timers pending, the callback
  shutdown,    \* SafeErrorHandler.gracefulShutdown: timers and cleanups pending
  exited       \* process.exit: no, or the exit code

vars == <<processes, info, alive, pend, bound, calls, restore, made, lastStart, ret,
          stateFile, lockFile, saves, clock, backups, lastSave, lastSkip, loaded,
          ensure, lastHealthCheck, recover,
          serviceStatus, servicePromises, inits, waits, checks, background,
          healthCheckInterval, timers, env, config, constructed, portTimers,
          errorHandlers, recoveries, shutdown, exited>>
pmVars == <<processes, info, alive, pend, bound, calls, restore, made,
           lastStart, ret>>
smVars == <<stateFile, lockFile, saves, clock, backups, lastSave, lastSkip, loaded,
           ensure>>
hcVars == <<lastHealthCheck, recover>>
siVars == <<serviceStatus, servicePromises, inits, waits, checks, background>>
tmVars == <<healthCheckInterval, timers>>
cfVars == <<env, config, constructed>>
ehVars == <<errorHandlers, recoveries, shutdown, exited>>

\* ------------------------------------------------- snapshot values ----
Fields == {"timestamp", "version", "devProcesses", "healthStatus"}

NoProc  == [pid |-> 0, status |-> "none"]
NoMap   == [k \in Keys |-> NoProc]
\* one top-level value of the snapshot: p = the key is present
Missing == [p |-> FALSE, n |-> 0, m |-> NoMap]
Num(n)  == [p |-> TRUE, n |-> n, m |-> NoMap]
Dev(m)  == [p |-> TRUE, n |-> 0, m |-> m]
NoFields == [f \in Fields |-> Missing]

\* a file content / a parsed state.  kind: absent, empty, garbage (not JSON),
\* nonobject (JSON, but not an object: null, 42, "x"), object, null
File(kind, f) == [kind |-> kind, f |-> f]

\* ------------------------------------------------------ StateManager ----
\* JSON.parse inside a try/catch: unparsable text yields the default value
safeJsonParse(data, defaultValue) ==
  IF data.kind = "garbage" THEN defaultValue ELSE data

\* StateManager.loadStateFromFile: threw = the promise rejects,
\* backup = a state.json.backup.<Date.now()> file is written
loadStateFromFile(data) ==
  IF data.kind \in {"absent", "empty"}
  THEN [threw |-> TRUE, state |-> File("null", NoFields), backup |-> FALSE]
  ELSE LET parsed == safeJsonParse(data, File("object", NoFields))
       IN IF parsed.kind # "object"
          THEN [threw |-> TRUE, state |-> File("null", NoFields), backup |-> TRUE]
          ELSE [threw |-> FALSE, state |-> parsed, backup |-> FALSE]

\* StateManager.loadState: a rejected read becomes null
loadState(data) == loadStateFromFile(data).state

BackupsAfter(data) ==
  IF loadStateFromFile(data).backup THEN backups \cup {clock} ELSE backups

\* the state saveState starts from when the file cannot be read
DefaultState(now) ==
  [NoFields EXCEPT !["timestamp"] = Num(now), !["version"] = Num(1)]

\* faulty variant: the spread order is reversed, the stored fields win
MergeStateCurrentWins(currentState, state, now) ==
  [f \in Fields |-> IF f = "timestamp" THEN Num(now)
                    ELSE IF currentState[f].p THEN currentState[f] ELSE state[f]]

\* { ...currentState, ...state, timestamp: new Date().toISOString() }
MergeState(currentState, state, now) ==
  [f \in Fields |-> IF f = "timestamp" THEN Num(now)
                    ELSE IF state[f].p THEN state[f] ELSE currentState[f]]

\* no loadState() has just returned
NoLoad == [of |-> "none", res |-> File("none", NoFields), bk |-> 0]

\* a saveState(x) in flight.  new: the merged state it will write; prev:
\* the timestamp of the snapshot it read; solo: no other saveState call was
\* made while it ran
NoSave == [pc |-> "idle", x |-> NoFields, new |-> NoFields, prev |-> -1, solo |-> FALSE]
\* ensureStateConsistency(): pc saving = it awaits the saveState of saver;
\* done = it has returned; stale = the recorded entries it found running
\* with their process gone
NoEnsure == [pc |-> "idle", saver |-> 0, stale |-> {}]
FreeSavers == {s \in Savers : saves[s].pc = "idle"}
MinSaver == CHOOSE s \in FreeSavers : \A t \in FreeSavers : s <= t
\* the saves between createLock() and removeLock()
Holders == {s \in Savers : saves[s].pc \in {"read", "write", "unlock"}}
\* the saveState calls that have not returned
InFlight == {s \in Savers : saves[s].pc # "idle"}

\* faulty variant: the lock is not looked at
BeginSaveIgnoresLock(x) ==
  [[s \in Savers |-> [saves[s] EXCEPT !.solo = FALSE]]
     EXCEPT ![MinSaver] = [NoSave EXCEPT !.pc = "lock", !.x = x]]

\* saveState(x) up to createLock(): isLocked() is an existsSync; a locked
\* store skips the save (return), otherwise createLock() is begun
BeginSave(x) ==
  LET others == [s \in Savers |-> [saves[s] EXCEPT !.solo = FALSE]]
  IN IF lockFile THEN others
     ELSE [others EXCEPT ![MinSaver] = [NoSave EXCEPT !.pc = "lock", !.x = x,
                                                       !.solo = InFlight = {}]]
CanSave == lockFile \/ FreeSavers # {}

\* createLock(): the lock file appears
SaveCreateLock(s) ==
  /\ saves[s].pc = "lock"
  /\ lockFile' = TRUE
  /\ saves' = [saves EXCEPT ![s].pc = "read"]
  /\ loaded' = NoLoad
  /\ UNCHANGED <<stateFile, clock, backups, lastSave, lastSkip, ensure>>
  /\ UNCHANGED <<pmVars, hcVars, siVars, tmVars, cfVars, portTimers, ehVars>>

\* the timestamp of a snapshot, -1 when it has none
FileTs(data) ==
  IF data.kind = "object" /\ data.f["timestamp"].p THEN data.f["timestamp"].n ELSE -1

\* loadStateFromFile() completes and the merged state is built
SaveRead(s) ==
  /\ saves[s].pc = "read"
  /\ LET r == loadStateFromFile(stateFile)
         currentState == IF r.threw THEN DefaultState(clock) ELSE r.state.f
     IN saves' = [saves EXCEPT ![s].pc = "write",
                               ![s].new = MergeState(currentState, saves[s].x, clock),
                               ![s].prev = IF r.threw THEN -1 ELSE FileTs(r.state)]
  /\ backups' = BackupsAfter(stateFile)
  /\ loaded' = NoLoad
  /\ UNCHANGED <<stateFile, lockFile, clock, lastSave, lastSkip, ensure>>
  /\ UNCHANGED <<pmVars, hcVars, siVars, tmVars, cfVars, portTimers, ehVars>>

\* writeFile(stateFilePath, JSON.stringify(newState)) completes
SaveWrite(s) ==
  /\ saves[s].pc = "write"
  /\ stateFile' = File("object", saves[s].new)
  /\ lastSave' = [by |-> s, x |-> saves[s].x, prev |-> saves[s].prev, solo |-> FALSE]
  /\ loaded' = NoLoad
  /\ saves' = [saves EXCEPT ![s].pc = "unlock"]
  /\ UNCHANGED <<lockFile, clock, backups, lastSkip, ensure>>
  /\ UNCHANGED <<pmVars, hcVars, siVars, tmVars, cfVars, portTimers, ehVars>>

\* finally { removeLock() }: unlink if the lock file exists; saveState
\* returns, and with it the ensureStateConsistency() that awaited it
SaveRemoveLock(s) ==
  /\ saves[s].pc = "unlock"
  /\ lockFile' = FALSE
  /\ saves' = [saves EXCEPT ![s] = NoSave]
  /\ lastSave' = IF lastSave.by = s THEN [lastSave EXCEPT !.solo = saves[s].solo]
                 ELSE lastSave
  /\ loaded' = NoLoad
  /\ ensure' = IF ensure.pc = "saving" /\ ensure.saver = s
               THEN [ensure EXCEPT !.pc = "done", !.saver = 0] ELSE ensure
  /\ UNCHANGED <<stateFile, clock, backups, lastSkip>>
  /\ UNCHANGED <<pmVars, hcVars, siVars, tmVars, cfVars, portTimers, ehVars>>

SaveStep == \E s \in Savers : SaveCreateLock(s) \/ SaveRead(s) \/ SaveWrite(s) \/ SaveRemoveLock(s)

\* ------------------------------------------- clients of the StateManager ----
MapA == [NoMap EXCEPT !["a"] = [pid |-> 1, status |-> "running"]]
XDev(m) == [NoFields EXCEPT !["devProcesses"] = Dev(m)]
\* saveHealthStatus: { healthStatus }
XHealth == [NoFields EXCEPT !["healthStatus"] = Num(7)]
\* clearDevProcessState: the loaded state without devProcesses
XRest == [NoFields EXCEPT !["timestamp"] = Num(0), !["version"] = Num(1)]
\* arguments of saveDevProcessState, saveHealthStatus, clearDevProcessState
Partials == {XDev(MapA), XHealth, XRest}

NoLastSave == [by |-> 0, x |-> NoFields, prev |-> -1, solo |-> FALSE]
NoSkip == {}

\* a client calls saveState(x); it no longer holds an earlier load's result
SaveStateCall(x) ==
  /\ CanSave
  /\ saves' = BeginSave(x)
  /\ lastSkip' = IF lockFile THEN InFlight ELSE NoSkip
  /\ loaded' = NoLoad
  /\ UNCHANGED <<stateFile, lockFile, clock, backups, lastSave, ensure>>
  /\ UNCHANGED <<pmVars, hcVars, siVars, tmVars, cfVars, portTimers, ehVars>>

\* a client calls loadState() and the read completes
LoadStateCall ==
  /\ loaded' = [of |-> stateFile.kind, res |-> loadState(stateFile),
                bk |-> Cardinality(BackupsAfter(stateFile)) - Cardinality(backups)]
  /\ backups' = BackupsAfter(stateFile)
  /\ UNCHANGED <<stateFile, lockFile, saves, clock, lastSave, lastSkip, ensure>>
  /\ UNCHANGED <<pmVars, hcVars, siVars, tmVars, cfVars, portTimers, ehVars>>

\* a millisecond passes
Tick ==
  /\ clock < MaxClock
  /\ clock' = clock + 1
  /\ loaded' = NoLoad
  /\ UNCHANGED <<stateFile, lockFile, saves, backups, lastSave, lastSkip, ensure>>
  /\ UNCHANGED <<pmVars, hcVars, siVars, tmVars, cfVars, portTimers, ehVars>>

\* -------------------------------------------------- SafeErrorHandler ----
\* timers: the attemptRecovery timers pending; pc: where the recovery
\* callback stands; errors, made, ok, failed (history): the uncaught errors
\* raised, the recoveries begun, completed and failed
NoRecoveries == [timers |-> 0, pc |-> "idle", errors |-> 0, made |-> 0, ok |-> 0,
                 failed |-> 0]
\* timers: the 10 s timers of gracefulShutdown pending; cleanups: the
\* performCleanup() calls that have not completed
NoShutdown == [timers |-> 0, cleanups |-> 0]

\* ---------------------------------------------------- ProcessManager ----
\* ports: info.ports; parsed (history): the ports the stdout handler found
\* in the output of the child and added to ports; signalled (history): a
\* stopDevServer has sent a signal to the process of this object
NoInfo == [dir |-> "", pid |-> 0, status |-> "none", child |-> FALSE,
           ports |-> {}, parsed |-> {}, signalled |-> FALSE]
\* a call in flight.  phase: which of startDevServer / stopDevServer runs;
\* pd: processData of stopDevServer; own: the object startDevServer created;
\* wproc: proc of waitForProcessStart; threw: the try block of stopDevServer
\* threw; sent: the signals this stopDevServer sent to pd's process, in
\* order; probe: what its isProcessRunning(pid) answered; overl: a
\* startDevServer of the same directory ran while this stopDevServer did;
\* cut: a stopDevServer of the same directory ran while this startDevServer
\* did; second: when this start(k) began, an earlier start(k) had returned
\* an object and no stop(k) had run since that start began; live: and that
\* object was still the registered one, its process alive
NoCall == [op |-> "none", phase |-> "none", dir |-> "", pc |-> "idle",
           pd |-> 0, own |-> 0, wproc |-> 0, threw |-> FALSE, sent |-> <<>>,
           probe |-> "none", overl |-> FALSE, cut |-> FALSE,
           second |-> FALSE, live |-> FALSE]
\* history: how a call (or the stop half of a restart) ended, or what an
\* iteration of getStatus reported (was: the status it found)
NoRet == [op |-> "none", dir |-> "", res |-> "none", ent |-> 0, status |-> "none",
          was |-> "none",
          spawned |-> FALSE, prev |-> 0, second |-> FALSE, live |-> FALSE,
          threw |-> FALSE, sent |-> <<>>, probe |-> "none", overl |-> FALSE,
          left |-> 0, dead |-> FALSE]
CallIdle(c) == calls[c].pc = "idle"
\* callers take the first free slot
FirstIdle(c) == CallIdle(c) /\ \A d \in Calls : CallIdle(d) => c <= d
\* a client makes one more call
Called(c) == FirstIdle(c) /\ made < MaxOps /\ made' = made + 1

\* faulty variant: the probe reports every process gone
ProbeAlwaysFails(pid) == FALSE

\* processUtils.isProcessRunning: process.kill(pid, 0) succeeds
isProcessRunning(pid) == pid \in alive

\* the devProcesses map saveDevProcessState builds from the registry
DevOf(procs, inf) ==
  [k \in Keys |->
     IF \E d \in Keys : procs[d] # 0 /\ inf[procs[d]].dir = k
     THEN LET d == CHOOSE d \in Keys : procs[d] # 0 /\ inf[procs[d]].dir = k
          IN [pid |-> inf[procs[d]].pid, status |-> inf[procs[d]].status]
     ELSE NoProc]

\* ProcessManager.saveCurrentState, not awaited: the registry as it is now
\* is handed to saveDevProcessState -> saveState, which runs up to isLocked()
saveCurrentState(procs, inf) ==
  /\ CanSave
  /\ saves' = BeginSave(XDev(DevOf(procs, inf)))

\* the OS ends process p; node queues the exit event of a child of ours
Ended(p, pnd) == IF p \in SpawnIds THEN [pnd EXCEPT ![p] = @ \cup {"exit"}] ELSE pnd

\* the slots no object occupies
FreeIds == {e \in SpawnIds : info[e].status = "none"}

\* spawn('npm', ['run','dev'], {cwd}) + processes.set + startLogging (await)
Spawn(c, cs, call, ok) ==
  LET e == CHOOSE e \in FreeIds : \A d \in FreeIds : e <= d IN
  /\ FreeIds # {}
  /\ info' = [info EXCEPT ![e] = [dir |-> call.dir, pid |-> IF ok THEN e ELSE 0,
                                  status |-> "starting", child |-> TRUE,
                                  ports |-> {}, parsed |-> {}, signalled |-> FALSE]]
  /\ processes' = [processes EXCEPT ![call.dir] = e]
  /\ alive' = IF ok THEN alive \cup {e} ELSE alive
  /\ pend' = [pend EXCEPT ![e] = IF ok THEN {"spawn"} ELSE {"error"}]
  /\ calls' = [cs EXCEPT ![c] = [call EXCEPT !.pc = "handlers", !.own = e]]

\* startDevServer returns entry e: it is the object of the last start(k)
\* unless a stop(k) ran meanwhile
Returned(call, e) ==
  IF call.cut THEN lastStart ELSE [lastStart EXCEPT ![call.dir] = e]

\* setTimeout(..., 3000) before startDevServer returns what it spawned: the
\* callback keeps the directory and the pid of the child
Armed(call) == portTimers \cup {[dir |-> call.dir, pid |-> info[call.own].pid]}

\* startDevServer returns entry e (res = ok) or throws (res = throw)
StartEnds(call, res, e, inf) ==
  [NoRet EXCEPT !.op = "start", !.dir = call.dir, !.res = res, !.ent = e,
                !.status = inf[e].status, !.spawned = call.own # 0,
                !.prev = IF call.second THEN lastStart[call.dir] ELSE 0,
                !.second = call.second, !.live = call.live]

\* a start(k) begins: the stops of k in flight are overlapped by it
Overlap(cs, k) == [d \in Calls |-> IF cs[d].dir = k /\ cs[d].phase = "stop"
                                  THEN [cs[d] EXCEPT !.overl = TRUE] ELSE cs[d]]

\* startDevServer up to its first await
StartBody(c, call) ==
  LET k == call.dir
      existingProcess == processes[k]
      cl == [call EXCEPT !.phase = "start", !.second = lastStart[k] # 0,
                         !.cut = \E d \in Calls : /\ d # c /\ calls[d].dir = k
                                                   /\ calls[d].phase = "stop"
                                                   /\ calls[d].pc # "settle",
                         !.live = /\ lastStart[k] # 0
                                  /\ processes[k] = lastStart[k]
                                  /\ info[lastStart[k]].pid \in alive]
  IN IF existingProcess = 0
     THEN \E ok \in BOOLEAN :
            /\ Spawn(c, Overlap(calls, k), cl, ok)
            /\ ret' = NoRet
            /\ UNCHANGED <<bound, restore, lastStart>>
     ELSE IF isProcessRunning(info[existingProcess].pid)
     THEN /\ calls' = [Overlap(calls, k) EXCEPT ![c] = NoCall]
          /\ ret' = StartEnds(cl, "ok", existingProcess, info)
          /\ lastStart' = Returned(cl, existingProcess)
          /\ UNCHANGED <<processes, info, alive, pend, bound, restore>>
     ELSE /\ calls' = [Overlap(calls, k) EXCEPT ![c] = [cl EXCEPT !.pc = "cget"]]
          /\ ret' = NoRet
          /\ UNCHANGED <<processes, info, alive, pend, bound, restore, lastStart>>

\* startDevServer(k) is called
StartCall(c, k) ==
  /\ Called(c)
  /\ StartBody(c, [NoCall EXCEPT !.op = "start", !.dir = k])
  /\ UNCHANGED <<smVars, hcVars, siVars, tmVars, cfVars, portTimers, ehVars>>

\* try { spawn ... } after cleanupProcess returned
StartSpawn(c) ==
  /\ calls[c].pc = "spawn"
  /\ \E ok \in BOOLEAN : Spawn(c, calls, calls[c], ok)
  /\ UNCHANGED <<bound, restore, made, lastStart>>
  /\ ret' = NoRet
  /\ UNCHANGED <<smVars, hcVars, siVars, tmVars, cfVars, portTimers, ehVars>>

\* setupProcessHandlers + the lookup of waitForProcessStart; without a
\* registry entry no handler is attached and the wait returns at once
StartHandlers(c) ==
  LET k == calls[c].dir
      proc == processes[k]
  IN /\ calls[c].pc = "handlers"
     /\ bound' = [bound EXCEPT ![calls[c].own] = IF proc = 0 THEN -1 ELSE proc]
     /\ IF proc = 0
        THEN /\ calls' = [calls EXCEPT ![c] = NoCall]
             /\ ret' = StartEnds(calls[c], "ok", calls[c].own, info)
             /\ lastStart' = Returned(calls[c], calls[c].own)
             /\ portTimers' = Armed(calls[c])
        ELSE /\ calls' = [calls EXCEPT ![c].pc = "wait", ![c].wproc = proc]
             /\ ret' = NoRet
             /\ UNCHANGED <<lastStart, portTimers, ehVars>>
     /\ UNCHANGED <<processes, info, alive, pend, restore, made>>
     /\ UNCHANGED <<smVars, hcVars, siVars, tmVars, cfVars, ehVars>>

\* waitForProcessStart sees status running and startDevServer returns
WaitRunning(c) ==
  /\ calls[c].pc = "wait"
  /\ info[calls[c].wproc].status = "running"
  /\ calls' = [calls EXCEPT ![c] = NoCall]
  /\ ret' = StartEnds(calls[c], "ok", calls[c].own, info)
  /\ lastStart' = Returned(calls[c], calls[c].own)
  /\ portTimers' = Armed(calls[c])
  /\ UNCHANGED <<processes, info, alive, pend, bound, restore, made>>
  /\ UNCHANGED <<smVars, hcVars, siVars, tmVars, cfVars, ehVars>>

\* waitForProcessStart sees status error and throws; the catch block of
\* startDevServer marks processes.get(directory) and rethrows
WaitError(c) ==
  LET proc == processes[calls[c].dir] IN
  /\ calls[c].pc = "wait"
  /\ info[calls[c].wproc].status = "error"
  /\ info' = IF proc = 0 THEN info ELSE [info EXCEPT ![proc].status = "error"]
  /\ calls' = [calls EXCEPT ![c] = NoCall]
  /\ ret' = StartEnds(calls[c], "throw", calls[c].own, info')
  /\ UNCHANGED <<processes, alive, pend, bound, restore, made, lastStart>>
  /\ UNCHANGED <<smVars, hcVars, siVars, tmVars, cfVars, portTimers, ehVars>>

\* the 10 s of waitForProcessStart are over: a status still starting is
\* taken for running, and startDevServer returns
WaitTimeout(c) ==
  LET w == calls[c].wproc IN
  /\ calls[c].pc = "wait"
  /\ info' = IF info[w].status = "starting" THEN [info EXCEPT ![w].status = "running"]
             ELSE info
  /\ calls' = [calls EXCEPT ![c] = NoCall]
  /\ ret' = StartEnds(calls[c], "ok", calls[c].own, info')
  /\ lastStart' = Returned(calls[c], calls[c].own)
  /\ portTimers' = Armed(calls[c])
  /\ UNCHANGED <<processes, alive, pend, bound, restore, made>>
  /\ UNCHANGED <<smVars, hcVars, siVars, tmVars, cfVars, ehVars>>

\* a stop(k) begins: the starts of k in flight are cut by it
Forget(cs, k) == [d \in Calls |-> IF cs[d].dir = k /\ cs[d].phase = "start"
                                  THEN [cs[d] EXCEPT !.cut = TRUE, !.second = FALSE,
                                                     !.live = FALSE]
                                  ELSE cs[d]]

\* stopDevServer returns res; left = what the registry holds for the key
\* then, dead = the process of processData is gone then
StopEnds(call, res, procs) ==
  [NoRet EXCEPT !.op = "stop", !.dir = call.dir, !.res = res, !.ent = call.pd,
                !.threw = call.threw, !.sent = call.sent, !.probe = call.probe,
                !.overl = call.overl, !.left = procs[call.dir],
                !.dead = call.pd # 0 /\ ~isProcessRunning(info[call.pd].pid)]

\* where a call goes when its stopDevServer has returned
AfterStop(call) ==
  IF call.op = "restart" THEN [call EXCEPT !.pc = "settle"] ELSE NoCall

\* faulty variant: a missing entry is reported as a failure
StopNoEntryFails(c, cl) ==
  /\ calls' = [Forget(calls, cl.dir) EXCEPT ![c] = AfterStop(cl)]
  /\ ret' = StopEnds(cl, "false", processes)

\* stopDevServer finds no entry: return true
StopNoEntry(c, cl) ==
  /\ calls' = [Forget(calls, cl.dir) EXCEPT ![c] = AfterStop(cl)]
  /\ ret' = StopEnds(cl, "true", processes)

\* a signal is sent to the process of object e
Signalled(e) == [info EXCEPT ![e].signalled = TRUE]

\* stopDevServer up to its first await: the lookup and the SIGTERM
StopBody(c, call) ==
  LET k == call.dir
      processData == processes[k]
      pid == info[processData].pid
      cl == [call EXCEPT !.phase = "stop", !.pd = processData,
                         !.overl = \E d \in Calls : /\ d # c /\ calls[d].dir = k
                                                     /\ calls[d].phase = "start"]
      term == [cl EXCEPT !.pc = "grace", !.sent = <<"SIGTERM">>]
  IN /\ lastStart' = [lastStart EXCEPT ![k] = 0]
     /\ IF processData = 0
        THEN StopNoEntry(c, cl) /\ UNCHANGED info
        ELSE IF info[processData].child
        THEN \* child.kill('SIGTERM'): never throws, signals a child that exists
             /\ calls' = [Forget(calls, k) EXCEPT ![c] =
                            IF pid \in alive THEN term ELSE [cl EXCEPT !.pc = "grace"]]
             /\ info' = IF pid \in alive THEN Signalled(processData) ELSE info
             /\ ret' = NoRet
        ELSE \* killProcess(pid, 'SIGTERM'): throws when the process is gone
             /\ calls' = [Forget(calls, k) EXCEPT ![c] =
                            IF isProcessRunning(pid) THEN term
                            ELSE [cl EXCEPT !.pc = "cget", !.threw = TRUE]]
             /\ info' = IF isProcessRunning(pid) THEN Signalled(processData) ELSE info
             /\ ret' = NoRet
     /\ UNCHANGED <<processes, alive, pend, bound, restore>>

\* stopDevServer(k) is called
StopCall(c, k) ==
  /\ Called(c)
  /\ StopBody(c, [NoCall EXCEPT !.op = "stop", !.dir = k])
  /\ UNCHANGED <<smVars, hcVars, siVars, tmVars, cfVars, portTimers, ehVars>>

\* restartDevServer(k) is called: it begins with stopDevServer(k)
RestartCall(c, k) ==
  /\ Called(c)
  /\ StopBody(c, [NoCall EXCEPT !.op = "restart", !.dir = k])
  /\ UNCHANGED <<smVars, hcVars, siVars, tmVars, cfVars, portTimers, ehVars>>

\* restartDevServer: the 1 s are over and startDevServer(k) is called
RestartStart(c) ==
  /\ calls[c].pc = "settle"
  /\ StartBody(c, [calls[c] EXCEPT !.pd = 0, !.threw = FALSE, !.sent = <<>>,
                                    !.probe = "none", !.overl = FALSE])
  /\ UNCHANGED made
  /\ UNCHANGED <<smVars, hcVars, siVars, tmVars, cfVars, portTimers, ehVars>>

\* stopDevServer: the 3 s are over, isProcessRunning(pid) is asked
StopProbe(c) ==
  /\ calls[c].pc = "grace"
  /\ calls' = IF isProcessRunning(info[calls[c].pd].pid)
              THEN [calls EXCEPT ![c].pc = "kill", ![c].probe = "alive"]
              ELSE [calls EXCEPT ![c].pc = "cget", ![c].probe = "dead"]
  /\ UNCHANGED <<processes, info, alive, pend, bound, restore, made, lastStart>>
  /\ ret' = NoRet
  /\ UNCHANGED <<smVars, hcVars, siVars, tmVars, cfVars, portTimers, ehVars>>

\* stopDevServer: killProcess(pid, 'SIGKILL') = process.kill, which sends
\* the signal (the process ends later, see ProcessExit) or throws when the
\* process went away since the probe
StopKill(c) ==
  LET pid == info[calls[c].pd].pid IN
  /\ calls[c].pc = "kill"
  /\ calls' = IF pid \in alive
              THEN [calls EXCEPT ![c].pc = "cget", ![c].sent = Append(@, "SIGKILL")]
              ELSE [calls EXCEPT ![c].pc = "cget", ![c].threw = TRUE]
  /\ info' = IF pid \in alive THEN Signalled(calls[c].pd) ELSE info
  /\ UNCHANGED <<processes, alive, pend, bound, restore, made, lastStart>>
  /\ ret' = NoRet
  /\ UNCHANGED <<smVars, hcVars, siVars, tmVars, cfVars, portTimers, ehVars>>

\* cleanupProcess has returned: startDevServer goes on to spawn,
\* stopDevServer returns true, or false from its catch block
Cleaned(c, procs) ==
  IF calls[c].phase = "start"
  THEN /\ calls' = [calls EXCEPT ![c].pc = "spawn"]
       /\ ret' = NoRet
  ELSE /\ calls' = [calls EXCEPT ![c] = AfterStop(calls[c])]
       /\ ret' = StopEnds(calls[c], IF calls[c].threw THEN "false" ELSE "true", procs)

\* cleanupProcess up to its await: the lookup
CleanupGet(c) ==
  /\ calls[c].pc = "cget"
  /\ IF processes[calls[c].dir] = 0 THEN Cleaned(c, processes)
     ELSE calls' = [calls EXCEPT ![c].pc = "cdel"] /\ ret' = NoRet
  /\ UNCHANGED <<processes, info, alive, pend, bound, restore, made, lastStart>>
  /\ UNCHANGED <<smVars, hcVars, siVars, tmVars, cfVars, portTimers, ehVars>>

\* faulty variant: the entry is not deleted
CleanupKeepsEntry(c) ==
  /\ calls[c].pc = "cdel"
  /\ saveCurrentState(processes, info)
  /\ Cleaned(c, processes)
  /\ UNCHANGED <<processes, info, alive, pend, bound, restore, made, lastStart>>
  /\ UNCHANGED <<stateFile, lockFile, clock, backups, lastSave, lastSkip, loaded, ensure,
               hcVars, siVars, tmVars, cfVars, portTimers, ehVars>>

\* faulty variant: every entry of the registry is deleted
CleanupDeleteAll(c) ==
  /\ calls[c].pc = "cdel"
  /\ processes' = [k \in Keys |-> 0]
  /\ saveCurrentState(processes', info)
  /\ Cleaned(c, processes')
  /\ UNCHANGED <<info, alive, pend, bound, restore, made, lastStart>>
  /\ UNCHANGED <<stateFile, lockFile, clock, backups, lastSave, lastSkip, loaded, ensure,
               hcVars, siVars, tmVars, cfVars, portTimers, ehVars>>

\* cleanupProcess after stopLogging: processes.delete + saveCurrentState
CleanupDelete(c) ==
  /\ calls[c].pc = "cdel"
  /\ processes' = [processes EXCEPT ![calls[c].dir] = 0]
  /\ saveCurrentState(processes', info)
  /\ Cleaned(c, processes')
  /\ UNCHANGED <<info, alive, pend, bound, restore, made, lastStart>>
  /\ UNCHANGED <<stateFile, lockFile, clock, backups, lastSave, lastSkip, loaded, ensure,
               hcVars, siVars, tmVars, cfVars, portTimers, ehVars>>

\* ------------------------------------------------ events of a child ----
\* a handler of child ch runs: it sets the status of the object it closed over
Handler(ch, ev, status) ==
  /\ ev \in pend[ch]
  /\ bound[ch] # 0
  /\ pend' = [pend EXCEPT ![ch] = @ \ {ev}]
  /\ IF bound[ch] > 0
     THEN /\ info' = [info EXCEPT ![bound[ch]].status = status]
          /\ saveCurrentState(processes, info')
     ELSE UNCHANGED <<info, saves>>
  /\ UNCHANGED <<processes, alive, bound, calls, restore, made, lastStart>>
  /\ ret' = NoRet
  /\ UNCHANGED <<stateFile, lockFile, clock, backups, lastSave, lastSkip, loaded, ensure,
               hcVars, siVars, tmVars, cfVars, portTimers, ehVars>>

OnSpawn(ch) == Handler(ch, "spawn", "running")
OnError(ch) == Handler(ch, "error", "error")
OnExit(ch)  == "spawn" \notin pend[ch] /\ Handler(ch, "exit", "stopped")

\* the OS process p ends (by itself or by a signal sent earlier)
ProcessExit(p) ==
  /\ p \in alive
  /\ alive' = alive \ {p}
  /\ pend' = Ended(p, pend)
  /\ UNCHANGED <<processes, info, bound, calls, restore, made, lastStart>>
  /\ ret' = NoRet
  /\ UNCHANGED <<smVars, hcVars, siVars, tmVars, cfVars, portTimers, ehVars>>

\* faulty variant: a running entry becomes stopped without a probe
GetStatusNoProbe(k) ==
  LET proc == processes[k] IN
  /\ proc # 0
  /\ info' = IF info[proc].status = "running"
             THEN [info EXCEPT ![proc].status = "stopped"] ELSE info
  /\ ret' = [NoRet EXCEPT !.op = "status", !.dir = k, !.ent = proc,
                          !.was = info[proc].status, !.status = info'[proc].status]
  /\ UNCHANGED <<processes, alive, pend, bound, calls, restore, made, lastStart>>
  /\ UNCHANGED <<smVars, hcVars, siVars, tmVars, cfVars, portTimers, ehVars>>

\* getStatus, one iteration: the process of the entry is probed, an entry
\* believed running whose process is gone becomes stopped, and a copy of
\* the entry is reported (its probe of the ports of a running entry that has
\* none is left out: it takes no port away and changes nothing else)
GetStatus(k) ==
  LET proc == processes[k]
      isRunning == isProcessRunning(info[proc].pid)
  IN /\ proc # 0
     /\ info' = IF ~isRunning /\ info[proc].status = "running"
                THEN [info EXCEPT ![proc].status = "stopped"] ELSE info
     /\ ret' = [NoRet EXCEPT !.op = "status", !.dir = k, !.ent = proc,
                             !.was = info[proc].status, !.status = info'[proc].status]
  /\ UNCHANGED <<processes, alive, pend, bound, calls, restore, made, lastStart>>
  /\ UNCHANGED <<smVars, hcVars, siVars, tmVars, cfVars, portTimers, ehVars>>

\* --------------------------------------------------- port detection ----
\* the ports a dev server can announce in its output or listen on
PortSet == {3000, 5173}

\* the stdout handler of child ch gets a chunk in which parsePort finds the
\* ports found: they are merged into the ports of the object the handler
\* closed over, and the registry is saved; a chunk without a port changes
\* nothing
OnData(ch, found) ==
  /\ ch \in alive
  /\ bound[ch] > 0
  /\ found # {}
  /\ info' = [info EXCEPT ![bound[ch]].ports = @ \cup found,
                          ![bound[ch]].parsed = @ \cup found]
  /\ saveCurrentState(processes, info')
  /\ UNCHANGED <<processes, alive, pend, bound, calls, restore, made, lastStart>>
  /\ ret' = NoRet
  /\ UNCHANGED <<stateFile, lockFile, clock, backups, lastSave, lastSkip, loaded, ensure,
               hcVars, siVars, tmVars, cfVars, portTimers, ehVars>>

\* proc.info.ports = await getPortsByPid(pid)
Detected(ports, result) == result

\* the delayed port detection t runs, 3 s after its startDevServer: the
\* entry now registered for the directory gets the ports the probe reports
\* for the pid (result), and the registry is saved; without an entry
\* nothing happens
DetectPorts(t, result) ==
  LET proc == processes[t.dir] IN
  /\ t \in portTimers
  /\ portTimers' = portTimers \ {t}
  /\ IF proc # 0
     THEN /\ info' = [info EXCEPT ![proc].ports = Detected(@, result)]
          /\ saveCurrentState(processes, info')
     ELSE UNCHANGED <<info, saves>>
  /\ UNCHANGED <<processes, alive, pend, bound, calls, restore, made, lastStart>>
  /\ ret' = NoRet
  /\ UNCHANGED <<stateFile, lockFile, clock, backups, lastSave, lastSkip, loaded, ensure,
               hcVars, siVars, tmVars, cfVars, ehVars>>

\* ------------------------------ StateManager.ensureStateConsistency ----
\* the cap of a stale consecutive-failure counter
MaxStaleFailures == 3
Min(a, b) == IF a <= b THEN a ELSE b

\* the recorded entries in status running whose process does not exist
StaleEntries(m) ==
  {k \in Keys : m[k].pid # 0 /\ m[k].status = "running" /\ ~isProcessRunning(m[k].pid)}

\* updatedState.devProcesses: the stale entries become stopped
Demoted(m) ==
  [k \in Keys |-> IF k \in StaleEntries(m) THEN [m[k] EXCEPT !.status = "stopped"]
                  ELSE m[k]]

\* ensureStateConsistency(): loadState() completes, every recorded process
\* is probed, a health status older than 10 minutes (old) gets its counter
\* capped, and saveState(updatedState) is begun if anything changed; a
\* locked store skips that save and the call returns at once
EnsureStateConsistency(old) ==
  LET state == loadState(stateFile)
      dev == state.f["devProcesses"]
      hs == state.f["healthStatus"]
      stale == IF dev.p THEN StaleEntries(dev.m) ELSE {}
      decay == hs.p /\ old
      needsUpdate == stale # {} \/ decay
      updatedState ==
        [state.f EXCEPT !["devProcesses"] = IF dev.p THEN Dev(Demoted(dev.m)) ELSE dev,
                        !["healthStatus"] = IF decay THEN Num(Min(hs.n, MaxStaleFailures))
                                            ELSE hs]
  IN /\ ensure.pc # "saving"
     /\ backups' = BackupsAfter(stateFile)
     /\ IF state.kind = "object" /\ needsUpdate
        THEN /\ CanSave
             /\ saves' = BeginSave(updatedState)
             /\ ensure' = IF lockFile THEN [pc |-> "done", saver |-> 0, stale |-> stale]
                          ELSE [pc |-> "saving", saver |-> MinSaver, stale |-> stale]
        ELSE /\ UNCHANGED saves
             /\ ensure' = [pc |-> "done", saver |-> 0, stale |-> {}]
     /\ loaded' = NoLoad
     /\ UNCHANGED <<stateFile, lockFile, clock, lastSave, lastSkip>>

\* a client (performBasicRecovery) calls ensureStateConsistency()
EnsureCall ==
  /\ made < MaxOps
  /\ made' = made + 1
  /\ \E old \in BOOLEAN : EnsureStateConsistency(old)
  /\ ret' = NoRet
  /\ UNCHANGED <<processes, info, alive, pend, bound, calls, restore, lastStart>>
  /\ UNCHANGED <<hcVars, siVars, tmVars, cfVars, portTimers, ehVars>>

\* -------------------------------------------- uncaught runtime errors ----
MaxErrors == 2       \* uncaught errors raised in one run
Running == exited = "no"

\* setupSafeErrorHandlers(): the listeners installed so far are removed
\* and those of SafeErrorHandler are installed
SetupSafeErrorHandlers ==
  /\ errorHandlers' = "safe"
  /\ UNCHANGED <<recoveries, shutdown, exited>>
  /\ UNCHANGED <<pmVars, smVars, hcVars, siVars, tmVars, cfVars, portTimers>>

\* an exception or a rejection escapes every handler.  The listeners of
\* index.ts log it and call process.exit(1); those of SafeErrorHandler
\* call attemptRecovery, which sets a timer of GRACE_PERIOD_MS
UncaughtError ==
  /\ recoveries.errors < MaxErrors
  /\ IF errorHandlers = "index"
     THEN /\ exited' = "1"
          /\ recoveries' = [recoveries EXCEPT !.errors = @ + 1]
     ELSE /\ recoveries' = [recoveries EXCEPT !.errors = @ + 1, !.timers = @ + 1]
          /\ UNCHANGED exited
  /\ UNCHANGED <<errorHandlers, shutdown>>
  /\ UNCHANGED <<pmVars, smVars, hcVars, siVars, tmVars, cfVars, portTimers>>

\* gracefulShutdown(reason): the 10 s timer is set and performCleanup()
\* is called
gracefulShutdown == [shutdown EXCEPT !.timers = @ + 1, !.cleanups = @ + 1]

\* the timer of attemptRecovery fires and performBasicRecovery() runs up
\* to its await of ensureStateConsistency() (ok), or the import of
\* StateManager or getInstance() throws: the catch block of the callback
\* calls gracefulShutdown
RecoveryBegin(ok, old) ==
  /\ recoveries.timers > 0
  /\ recoveries.pc = "idle"
  /\ IF ok
     THEN /\ EnsureStateConsistency(old)
          /\ recoveries' = [recoveries EXCEPT !.timers = @ - 1, !.made = @ + 1,
                                              !.pc = "ensure"]
          /\ UNCHANGED shutdown
     ELSE /\ recoveries' = [recoveries EXCEPT !.timers = @ - 1, !.made = @ + 1,
                                              !.failed = @ + 1]
          /\ shutdown' = gracefulShutdown
          /\ UNCHANGED smVars
  /\ UNCHANGED <<errorHandlers, exited>>
  /\ UNCHANGED <<pmVars, hcVars, siVars, tmVars, cfVars, portTimers>>

\* ensureStateConsistency() has returned (it catches what it throws); the
\* memory check throws nothing, and the recovery is complete
RecoveryEnd ==
  /\ recoveries.pc = "ensure"
  /\ ensure.pc # "saving"
  /\ recoveries' = [recoveries EXCEPT !.pc = "idle", !.ok = @ + 1]
  /\ UNCHANGED <<errorHandlers, shutdown, exited>>
  /\ UNCHANGED <<pmVars, smVars, hcVars, siVars, tmVars, cfVars, portTimers>>

\* performCleanup() completes (it catches what its steps throw): the
\* periodic health check is stopped, removeLock() was called without being
\* awaited (unlinked: the unlink was done before the exit), and the
\* continuation calls process.exit(0)
CleanupDone(unlinked) ==
  /\ shutdown.cleanups > 0
  /\ shutdown' = [shutdown EXCEPT !.cleanups = @ - 1]
  /\ healthCheckInterval' = 0
  /\ timers' = {}
  /\ lockFile' = IF unlinked THEN FALSE ELSE lockFile
  /\ exited' = "0"
  /\ UNCHANGED <<stateFile, saves, clock, backups, lastSave, lastSkip, loaded, ensure>>
  /\ UNCHANGED <<errorHandlers, recoveries>>
  /\ UNCHANGED <<pmVars, hcVars, siVars, cfVars, portTimers>>

\* the 10 s timer of gracefulShutdown fires: process.exit(1)
ShutdownTimeout ==
  /\ shutdown.timers > 0
  /\ shutdown' = [shutdown EXCEPT !.timers = @ - 1]
  /\ exited' = "1"
  /\ UNCHANGED <<errorHandlers, recoveries>>
  /\ UNCHANGED <<pmVars, smVars, hcVars, siVars, tmVars, cfVars, portTimers>>

\* ----------------------------------------------------- HealthChecker ----
\* memory readings: heapUsed and rss under their limits, or not
Memory == {"low", "high"}

\* no health check made yet.  errors is history: some entry of the registry
\* was in status error when the check was made
NoHealth == [checked |-> FALSE, isHealthy |-> FALSE, memory |-> FALSE,
             processManager |-> FALSE, devServer |-> FALSE,
             devServerStatus |-> "stopped", errors |-> FALSE]

\* processManager.getCurrentProcess(): the ProcessManager that keeps the Map
\* of processes defines getProcess(directory) and no getCurrentProcess, so
\* the call throws a TypeError
getCurrentProcess == [threw |-> TRUE, proc |-> 0]

checkMemoryUsage(mem) == mem = "low"

\* try { getCurrentProcess(); return true } catch { return false }
checkProcessManager == ~getCurrentProcess.threw

\* no current process, or one whose status is not error; false on a throw
checkDevServer ==
  LET currentProcess == getCurrentProcess IN
  IF currentProcess.threw THEN FALSE
  ELSE IF currentProcess.proc = 0 THEN TRUE
  ELSE info[currentProcess.proc].status # "error"

\* the devServerStatus summary of performHealthCheck
devServerStatus ==
  LET currentProcess == getCurrentProcess IN
  IF currentProcess.threw THEN "error"
  ELSE IF currentProcess.proc # 0 /\ info[currentProcess.proc].status \in {"running", "error"}
  THEN info[currentProcess.proc].status
  ELSE "stopped"

performHealthCheck(mem) ==
  [checked |-> TRUE,
   isHealthy |-> checkMemoryUsage(mem) /\ checkProcessManager /\ checkDevServer,
   memory |-> checkMemoryUsage(mem),
   processManager |-> checkProcessManager,
   devServer |-> checkDevServer,
   devServerStatus |-> devServerStatus,
   errors |-> \E k \in Keys : processes[k] # 0 /\ info[processes[k]].status = "error"]

\* the timers node can hold at a time
MaxTimers == 2
TimerIds == 1..MaxTimers

\* setInterval: a timer that is not active and is not the one just cleared
NewTimer(active, cleared) ==
  CHOOSE t \in TimerIds \ (active \cup {cleared}) :
     \A u \in TimerIds \ (active \cup {cleared}) : t <= u

\* faulty variant: the timer of the previous start is left running
StartPeriodicKeepsTimer ==
  /\ TimerIds \ (timers \cup {healthCheckInterval}) # {}
  /\ healthCheckInterval' = NewTimer(timers, healthCheckInterval)
  /\ timers' = timers \cup {healthCheckInterval'}
  /\ ret' = NoRet
  /\ UNCHANGED <<processes, info, alive, pend, bound, calls, restore, made, lastStart>>
  /\ UNCHANGED <<smVars, hcVars, siVars, cfVars, portTimers, ehVars>>

\* startPeriodicHealthCheck(intervalMs): clearInterval of the timer held,
\* then setInterval
StartPeriodicHealthCheck ==
  LET active == IF healthCheckInterval # 0 THEN timers \ {healthCheckInterval}
                ELSE timers
  IN /\ TimerIds \ (active \cup {healthCheckInterval}) # {}
     /\ healthCheckInterval' = NewTimer(active, healthCheckInterval)
     /\ timers' = active \cup {healthCheckInterval'}
     /\ ret' = NoRet
     /\ UNCHANGED <<processes, info, alive, pend, bound, calls, restore, made, lastStart>>
     /\ UNCHANGED <<smVars, hcVars, siVars, cfVars, portTimers, ehVars>>

\* stopPeriodicHealthCheck(): clearInterval of the timer held, if any
StopPeriodicHealthCheck ==
  /\ healthCheckInterval # 0
  /\ timers' = timers \ {healthCheckInterval}
  /\ healthCheckInterval' = 0
  /\ ret' = NoRet
  /\ UNCHANGED <<processes, info, alive, pend, bound, calls, restore, made, lastStart>>
  /\ UNCHANGED <<smVars, hcVars, siVars, cfVars, portTimers, ehVars>>

\* a timer of startPeriodicHealthCheck fires
PeriodicHealthCheck ==
  /\ timers # {}
  /\ \E mem \in Memory : lastHealthCheck' = performHealthCheck(mem)
  /\ lastHealthCheck' # lastHealthCheck
  /\ ret' = NoRet
  /\ UNCHANGED <<processes, info, alive, pend, bound, calls, restore, made, lastStart>>
  /\ UNCHANGED <<smVars, recover, siVars, tmVars, cfVars, portTimers, ehVars>>

\* ------------------------------------------------------- autoRecover ----
MaxAttempts == 2
\* the directory startDevServer() takes when none is given
DefaultDir == "a"

\* autoRecover: attempts, max = maxRetries, force = forceRecover, todo = the
\* candidates recoverFromState has not looked at, call = the startDevServer
\* call awaited, after = where to go on when it returns, result = what
\* autoRecover returned.  History: fresh = startDevServer() calls made for
\* the default directory that went on to spawn, first = the attempt of the
\* first of them, pre = when called, the registry held entries, all with
\* their process gone, and the snapshot no entry recorded as running
NoRecover == [pc |-> "idle", attempts |-> 0, max |-> 0, force |-> FALSE,
              todo |-> {}, call |-> 0, after |-> "idle", result |-> "none",
              fresh |-> 0, first |-> 0, pre |-> FALSE]

\* getRecoveryInfo().devProcesses: the recorded entries in status running
Candidates(state) ==
  IF state.kind = "object" /\ state.f["devProcesses"].p
  THEN {k \in Keys : state.f["devProcesses"].m[k].status = "running"}
  ELSE {}

\* the head of the loop: attempts++, performHealthCheck(); healthy returns
\* success at once
RecoverHealth(r, mem) ==
  LET healthStatus == performHealthCheck(mem) IN
  /\ lastHealthCheck' = healthStatus
  /\ recover' = IF healthStatus.isHealthy
                THEN [r EXCEPT !.attempts = @ + 1, !.pc = "done", !.result = "success"]
                ELSE [r EXCEPT !.attempts = @ + 1, !.pc = "status"]

\* autoRecover({maxRetries, forceRecover}) is called
AutoRecoverCall(max, force) ==
  /\ recover.pc = "idle"
  /\ \E mem \in Memory :
       RecoverHealth([NoRecover EXCEPT !.max = max, !.force = force,
                        !.pre = /\ \E k \in Keys : processes[k] # 0
                                /\ \A k \in Keys : processes[k] # 0 =>
                                      ~isProcessRunning(info[processes[k]].pid)
                                /\ Candidates(loadState(stateFile)) = {}], mem)
  /\ ret' = NoRet
  /\ UNCHANGED <<processes, info, alive, pend, bound, calls, restore, made, lastStart>>
  /\ UNCHANGED <<smVars, siVars, tmVars, cfVars, portTimers, ehVars>>

\* processManager.getStatus(): an entry believed running whose process is
\* gone becomes stopped; with no entry left running recoverFromState begins
RecoverStatus ==
  LET marked == [e \in EntryIds |->
                   IF /\ \E k \in Keys : processes[k] = e
                      /\ info[e].status = "running" /\ ~isProcessRunning(info[e].pid)
                   THEN [info[e] EXCEPT !.status = "stopped"] ELSE info[e]]
      noRunningProcesses == \A k \in Keys : processes[k] # 0 =>
                               marked[processes[k]].status # "running"
  IN /\ recover.pc = "status"
     /\ info' = marked
     /\ recover' = [recover EXCEPT !.pc = IF noRunningProcesses THEN "info" ELSE "ensure"]
     /\ ret' = NoRet
     /\ UNCHANGED <<processes, alive, pend, bound, calls, restore, made, lastStart>>
     /\ UNCHANGED <<smVars, lastHealthCheck, siVars, tmVars, cfVars, portTimers, ehVars>>

\* autoRecover or recoverFromState calls startDevServer(k) and awaits it
RecoverStart(c, k, after) ==
  /\ FirstIdle(c)
  /\ StartBody(c, [NoCall EXCEPT !.op = "start", !.dir = k])
  /\ UNCHANGED made

\* the start for the default directory goes on to spawn unless it finds
\* the registered process alive
Fresh(r) ==
  IF processes[DefaultDir] # 0 /\ isProcessRunning(info[processes[DefaultDir]].pid)
  THEN r
  ELSE [r EXCEPT !.fresh = @ + 1, !.first = IF r.fresh = 0 THEN r.attempts ELSE @]

\* recoverFromState: getRecoveryInfo() completes.  Without a candidate and
\* without force it reports failure and autoRecover starts the default
\* process; otherwise the candidates are gone through
RecoverInfo ==
  LET state == loadState(stateFile)
      candidates == Candidates(state)
  IN /\ recover.pc = "info"
     /\ backups' = BackupsAfter(stateFile)
     /\ loaded' = NoLoad
     /\ IF candidates = {} /\ ~recover.force
        THEN \E c \in Calls :
               /\ RecoverStart(c, DefaultDir, "ensure")
               /\ recover' = [Fresh(recover) EXCEPT !.pc = "startwait", !.call = c,
                                                    !.after = "ensure"]
        ELSE /\ recover' = [recover EXCEPT !.todo = candidates,
                                          !.pc = IF candidates = {} THEN "ensure" ELSE "cand"]
             /\ ret' = NoRet
             /\ UNCHANGED <<processes, info, alive, pend, bound, calls, restore, made,
                            lastStart>>
     /\ UNCHANGED <<stateFile, lockFile, saves, clock, lastSave, lastSkip, ensure>>
     /\ UNCHANGED <<lastHealthCheck, siVars, tmVars, cfVars, portTimers, ehVars>>

\* recoverFromState, one candidate: registered as running, or its recorded
\* pid alive: nothing is started; otherwise startDevServer(directory)
RecoverCandidate(k) ==
  LET proc == loadState(stateFile).f["devProcesses"].m[k]
      existingProcess == processes[k]
      todo == recover.todo \ {k}
      next == IF todo = {} THEN "ensure" ELSE "cand"
  IN /\ recover.pc = "cand"
     /\ k \in recover.todo
     /\ IF \/ existingProcess # 0 /\ info[existingProcess].status = "running"
           \/ isProcessRunning(proc.pid)
        THEN /\ recover' = [recover EXCEPT !.todo = todo, !.pc = next]
             /\ ret' = NoRet
             /\ UNCHANGED <<processes, info, alive, pend, bound, calls, restore, made,
                            lastStart>>
        ELSE \E c \in Calls :
               /\ RecoverStart(c, k, next)
               /\ recover' = [recover EXCEPT !.todo = todo, !.pc = "startwait",
                                             !.call = c, !.after = next]
     /\ UNCHANGED <<smVars, lastHealthCheck, siVars, tmVars, cfVars, portTimers, ehVars>>

\* the awaited startDevServer has returned or thrown
RecoverResume ==
  /\ recover.pc = "startwait"
  /\ CallIdle(recover.call)
  /\ recover' = [recover EXCEPT !.pc = recover.after, !.call = 0, !.after = "idle"]
  /\ ret' = NoRet
  /\ UNCHANGED <<processes, info, alive, pend, bound, calls, restore, made, lastStart>>
  /\ UNCHANGED <<smVars, lastHealthCheck, siVars, tmVars, cfVars, portTimers, ehVars>>

\* step 3: ensureStateConsistency() is called and awaited
RecoverEnsure ==
  /\ recover.pc = "ensure"
  /\ \E old \in BOOLEAN : EnsureStateConsistency(old)
  /\ recover' = [recover EXCEPT !.pc = IF ensure'.pc = "saving" THEN "ensurewait"
                                       ELSE "settle"]
  /\ ret' = NoRet
  /\ UNCHANGED <<processes, info, alive, pend, bound, calls, restore, made, lastStart>>
  /\ UNCHANGED <<lastHealthCheck, siVars, tmVars, cfVars, portTimers, ehVars>>

\* ensureStateConsistency() has returned
RecoverEnsured ==
  /\ recover.pc = "ensurewait"
  /\ ensure.pc = "done"
  /\ recover' = [recover EXCEPT !.pc = "settle"]
  /\ ret' = NoRet
  /\ UNCHANGED <<processes, info, alive, pend, bound, calls, restore, made, lastStart>>
  /\ UNCHANGED <<smVars, lastHealthCheck, siVars, tmVars, cfVars, portTimers, ehVars>>

\* faulty variant: the loop does not look at maxRetries
RecoverSettleNoLimit ==
  /\ recover.pc = "settle"
  /\ \E mem \in Memory :
       LET postRecoveryHealth == performHealthCheck(mem) IN
       /\ lastHealthCheck' = postRecoveryHealth
       /\ recover' = IF postRecoveryHealth.isHealthy
                     THEN [recover EXCEPT !.pc = "done", !.result = "success"]
                     ELSE [recover EXCEPT !.pc = "retry"]
  /\ ret' = NoRet
  /\ UNCHANGED <<processes, info, alive, pend, bound, calls, restore, made, lastStart>>
  /\ UNCHANGED <<smVars, siVars, tmVars, cfVars, portTimers, ehVars>>

\* the 2 s are over: the health check after the attempt.  Healthy returns
\* success; otherwise another attempt follows after 5 s, or failure is
\* returned when the attempts are used up
RecoverSettle ==
  /\ recover.pc = "settle"
  /\ \E mem \in Memory :
       LET postRecoveryHealth == performHealthCheck(mem) IN
       /\ lastHealthCheck' = postRecoveryHealth
       /\ recover' = IF postRecoveryHealth.isHealthy
                     THEN [recover EXCEPT !.pc = "done", !.result = "success"]
                     ELSE IF recover.attempts < recover.max
                     THEN [recover EXCEPT !.pc = "retry"]
                     ELSE [recover EXCEPT !.pc = "done", !.result = "failure"]
  /\ ret' = NoRet
  /\ UNCHANGED <<processes, info, alive, pend, bound, calls, restore, made, lastStart>>
  /\ UNCHANGED <<smVars, siVars, tmVars, cfVars, portTimers, ehVars>>

\* the 5 s are over: the next attempt begins
RecoverRetry ==
  /\ recover.pc = "retry"
  /\ \E mem \in Memory : RecoverHealth(recover, mem)
  /\ ret' = NoRet
  /\ UNCHANGED <<processes, info, alive, pend, bound, calls, restore, made, lastStart>>
  /\ UNCHANGED <<smVars, siVars, tmVars, cfVars, portTimers, ehVars>>

\* ---------------------------------------------- MCPServerInitializer ----
MaxWaiters == 3
Services == {"stateManager", "healthChecker", "healthEndpoint", "projectContext"}
\* the services the callers other than startBackgroundInitialization name
CoreServices == {"stateManager", "healthChecker"}
\* the tools ensureToolDependencies is called for
Tools == {"start_dev_server", "auto_recover"}
Waiters == 1..MaxWaiters

\* SERVICE_DEPENDENCIES, in the declared order
SERVICE_DEPENDENCIES(tool) ==
  IF tool = "auto_recover" THEN <<"stateManager", "healthChecker">>
  ELSE IF tool = "scan_project_dirs" THEN <<"projectContext">>
  ELSE IF tool = "get_health_status" THEN <<"healthChecker">>
  ELSE <<"stateManager">>
Range(f) == {f[i] : i \in DOMAIN f}

\* inits: count = the invocations of an init function for the service so
\* far, by = who passed the init function of the initialization in flight
NoInit == [count |-> 0, by |-> "none"]

\* a caller of initializeService (kind init) or waitForService (kind wait):
\* mode own = its call invoked the init function, join = it was handed the
\* promise of the initialization in flight, race = Promise.race of that
\* promise and the timeout, poll = polling the status.  err: init = the
\* error of the init function, failed = "Service failed", timeout =
\* "Service initialization timeout".  History: at = the status of the
\* service when the call completed, flight = the call was made while an
\* initialization of the service was in flight
NoWait == [kind |-> "none", name |-> "", mode |-> "none", st |-> "idle",
           err |-> "none", at |-> "none", flight |-> FALSE]

\* faulty variant: the error of waitForService is passed on as it is
DependencyErrorUnwrapped(tool, dep, cause) == [tool |-> "", dep |-> "", cause |-> cause]

\* the error ensureToolDependencies throws: "Tool <tool> requires <dep>
\* service, but initialization failed: <cause>"
DependencyError(tool, dep, cause) == [tool |-> tool, dep |-> dep, cause |-> cause]
NoError == [tool |-> "", dep |-> "", cause |-> "none"]

\* ensureToolDependencies(tool): promise = dependencyCheckPromises holds
\* the key of the tool, running = the checks of the tool not yet completed,
\* callers = the callers that hold the promise of the check, dep = where the
\* waitForService of each dependency stands (none, race, poll, resolved,
\* rejected), first = the first rejection among them, made = the calls so
\* far.  History: res, err = how the last check ended, got = the callers
\* that were handed the outcome of a check so far, share = those handed the
\* outcome of the last check, failed = the dependencies whose wait had
\* failed when the last check ended
NoCheck == [promise |-> FALSE, running |-> 0, callers |-> 0,
            dep |-> [s \in Services |-> "none"], first |-> NoError, made |-> 0,
            res |-> "none", err |-> NoError, got |-> 0, share |-> 0, failed |-> {}]

\* startBackgroundInitialization: the four initTasks and Promise.allSettled
NoBackground == [pc |-> "idle", tasks |-> [s \in Services |-> "none"]]

\* faulty variant: an initialization in flight is not noticed
HasPromiseNever(s) == FALSE
\* faulty variant: a service that is ready is not noticed
IsReadyNever(s) == FALSE
\* faulty variant: a dependency check in flight is not noticed
CheckInFlightNever(t) == FALSE

\* this.serviceStatus.get(name) === 'ready'
IsReady(s) == serviceStatus[s] = "ready"
\* this.servicePromises.has(name)
HasPromise(s) == servicePromises[s] # "none"
\* an initialization of s is in flight
Initializing(s) == servicePromises[s] = "pending"
\* this.dependencyCheckPromises.has(cacheKey)
CheckInFlight(t) == checks[t].promise

\* initializeService(s, fn) up to its return.  fn is an async function, or
\* one that throws before it returns a promise.  resolved: the service is
\* ready; join: the promise of the initialization in flight is returned;
\* stale: a rejected promise left in servicePromises is returned; own: fn
\* is invoked and the promise of the new initialization is returned;
\* threw: fn is invoked and throws at once, so catch and finally run before
\* servicePromises.set, which then stores the rejected promise for good
initializeService(s, fn) ==
  IF IsReady(s) THEN "resolved"
  ELSE IF HasPromise(s) THEN (IF Initializing(s) THEN "join" ELSE "stale")
  ELSE IF fn = "throws" THEN "threw"
  ELSE "own"

\* the maps after initializeService calls with the outcomes out (skip: no
\* call for the service)
StatusAfter(out) ==
  [s \in Services |-> IF out[s] = "own" THEN "initializing"
                      ELSE IF out[s] = "threw" THEN "failed"
                      ELSE serviceStatus[s]]
PromisesAfter(out) ==
  [s \in Services |-> IF out[s] = "own" THEN "pending"
                      ELSE IF out[s] = "threw" THEN "rejected"
                      ELSE servicePromises[s]]
InitsAfter(out, by) ==
  [s \in Services |-> IF out[s] = "own" THEN [count |-> inits[s].count + 1, by |-> by]
                      ELSE IF out[s] = "threw" THEN [inits[s] EXCEPT !.count = @ + 1]
                      ELSE inits[s]]

\* waitForService(s) up to its return: resolved, failed ("Service failed"),
\* race against the promise in servicePromises (stale: that promise is a
\* rejected one), or poll
waitForService(s) ==
  IF serviceStatus[s] = "ready" THEN "resolved"
  ELSE IF serviceStatus[s] = "failed" THEN "failed"
  ELSE IF servicePromises[s] # "none"
  THEN (IF servicePromises[s] = "pending" THEN "race" ELSE "stale")
  ELSE "poll"

\* callers take the first free slot
FreeWaiter(w) == waits[w].st = "idle" /\ \A v \in Waiters : waits[v].st = "idle" => w <= v

\* a client calls initializeService(s, fn)
InitializeServiceCall(w, s, fn) ==
  LET o == initializeService(s, fn)
      out == [t \in Services |-> IF t = s THEN o ELSE "skip"]
  IN /\ FreeWaiter(w)
     /\ serviceStatus' = StatusAfter(out)
     /\ servicePromises' = PromisesAfter(out)
     /\ inits' = InitsAfter(out, "caller")
     /\ waits' = [waits EXCEPT ![w] =
          [kind |-> "init", name |-> s,
           mode |-> IF o \in {"own", "join"} THEN o ELSE "none",
           st |-> IF o = "resolved" THEN "resolved"
                  ELSE IF o \in {"stale", "threw"} THEN "rejected" ELSE "pending",
           err |-> IF o \in {"stale", "threw"} THEN "init" ELSE "none",
           at |-> IF o \in {"own", "join"} THEN "none" ELSE serviceStatus'[s],
           flight |-> Initializing(s)]]
     /\ UNCHANGED <<checks, background>>
     /\ UNCHANGED <<pmVars, smVars, hcVars, tmVars, cfVars, portTimers, ehVars>>

\* a client calls waitForService(s, timeoutMs)
WaitForServiceCall(w, s) ==
  LET o == waitForService(s) IN
  /\ FreeWaiter(w)
  /\ waits' = [waits EXCEPT ![w] =
       [kind |-> "wait", name |-> s,
        mode |-> IF o \in {"race", "poll"} THEN o ELSE "none",
        st |-> IF o = "resolved" THEN "resolved"
               ELSE IF o \in {"failed", "stale"} THEN "rejected" ELSE "pending",
        err |-> IF o = "failed" THEN "failed" ELSE IF o = "stale" THEN "init" ELSE "none",
        at |-> IF o \in {"race", "poll"} THEN "none" ELSE serviceStatus[s],
        flight |-> Initializing(s)]]
  /\ UNCHANGED <<serviceStatus, servicePromises, inits, checks, background>>
  /\ UNCHANGED <<pmVars, smVars, hcVars, tmVars, cfVars, portTimers, ehVars>>

\* the first rejection among the waits of a dependency check
FirstError(t, chk, d, cause) ==
  IF chk.first = NoError THEN DependencyError(t, d, cause) ELSE chk.first

\* Promise.all of a dependency check has settled and its finally block has
\* yet to run; likewise Promise.allSettled of the background initialization
CheckSettled(t) ==
  /\ checks[t].running > 0
  /\ \/ checks[t].first # NoError
     \/ \A d \in Range(SERVICE_DEPENDENCIES(t)) : checks[t].dep[d] = "resolved"
BackgroundSettled ==
  /\ background.pc = "waiting"
  /\ \A s \in Services : background.tasks[s] \in {"fulfilled", "rejected"}
\* promise continuations run before the next timer or I/O callback
InitializerMicrotask == BackgroundSettled \/ \E t \in Tools : CheckSettled(t)

\* init functions that cannot fail: the one startBackgroundInitialization
\* passes for projectContext only writes a log line
CanFail(s) == inits[s].by = "caller" \/ s # "projectContext"

\* the promise of the init function of s settles: the status is set, the
\* finally block removes the promise, and everything awaiting the promise
\* of the initialization goes on
InitSettle(s, ok) ==
  LET status == IF ok THEN "ready" ELSE "failed"
      st == IF ok THEN "resolved" ELSE "rejected"
  IN /\ ~InitializerMicrotask
     /\ Initializing(s)
     /\ ok \/ CanFail(s)
     /\ serviceStatus' = [serviceStatus EXCEPT ![s] = status]
     /\ servicePromises' = [servicePromises EXCEPT ![s] = "none"]
     /\ inits' = [inits EXCEPT ![s].by = "none"]
     /\ waits' = [w \in Waiters |->
          IF waits[w].name = s /\ waits[w].st = "pending"
             /\ waits[w].mode \in {"own", "join", "race"}
          THEN [waits[w] EXCEPT !.st = st, !.err = IF ok THEN "none" ELSE "init",
                                !.at = status]
          ELSE waits[w]]
     /\ checks' = [t \in Tools |->
          IF checks[t].dep[s] = "race"
          THEN [checks[t] EXCEPT !.dep[s] = st,
                                 !.first = IF ok THEN @ ELSE FirstError(t, checks[t], s, "init")]
          ELSE checks[t]]
     /\ background' = IF background.tasks[s] = "pending"
                      THEN [background EXCEPT !.tasks[s] = IF ok THEN "fulfilled" ELSE "rejected"]
                      ELSE background
     /\ UNCHANGED <<pmVars, smVars, hcVars, tmVars, cfVars, portTimers, ehVars>>

\* checkStatus of a polling waitForService finds the service ready or failed
WaitPoll(w) ==
  LET currentStatus == serviceStatus[waits[w].name] IN
  /\ ~InitializerMicrotask
  /\ waits[w].st = "pending" /\ waits[w].mode = "poll"
  /\ currentStatus \in {"ready", "failed"}
  /\ waits' = [waits EXCEPT ![w].st = IF currentStatus = "ready" THEN "resolved" ELSE "rejected",
                            ![w].err = IF currentStatus = "ready" THEN "none" ELSE "failed",
                            ![w].at = currentStatus]
  /\ UNCHANGED <<serviceStatus, servicePromises, inits, checks, background>>
  /\ UNCHANGED <<pmVars, smVars, hcVars, tmVars, cfVars, portTimers, ehVars>>

\* faulty variant: waitForService sets no timer
WaitForNoTimeout(w) == FALSE /\ UNCHANGED vars

\* the timeout of a waitForService fires first
WaitForTimeout(w) ==
  /\ ~InitializerMicrotask
  /\ waits[w].st = "pending" /\ waits[w].mode \in {"race", "poll"}
  /\ waits' = [waits EXCEPT ![w].st = "rejected", ![w].err = "timeout",
                            ![w].at = serviceStatus[waits[w].name]]
  /\ UNCHANGED <<serviceStatus, servicePromises, inits, checks, background>>
  /\ UNCHANGED <<pmVars, smVars, hcVars, tmVars, cfVars, portTimers, ehVars>>

\* ----------------------------------------- ensureToolDependencies ----
MaxChecks == 2

\* faulty variant: the dependency is not waited for
DepWaitSkipped(d) == "resolved"

\* waitForService(d).catch(...) of one dependency, as the check begins
DepWait(d) ==
  LET o == waitForService(d) IN
  IF o \in {"failed", "stale"} THEN "rejected" ELSE o
DepCause(d) == IF waitForService(d) = "failed" THEN "failed" ELSE "init"

\* the first dependency, in the declared order, whose wait is rejected as
\* the check begins
RECURSIVE FirstRejected(_, _, _)
FirstRejected(t, deps, i) ==
  IF i > Len(deps) THEN NoError
  ELSE IF DepWait(deps[i]) = "rejected" THEN DependencyError(t, deps[i], DepCause(deps[i]))
  ELSE FirstRejected(t, deps, i + 1)

\* a client calls ensureToolDependencies(t)
EnsureToolDependenciesCall(t) ==
  LET dependencies == SERVICE_DEPENDENCIES(t) IN
  /\ checks[t].made < MaxChecks
  /\ checks' = [checks EXCEPT ![t] =
       IF CheckInFlight(t)
       THEN [@ EXCEPT !.callers = @ + 1, !.made = @ + 1]
       ELSE [@ EXCEPT !.promise = TRUE, !.running = @ + 1, !.callers = 1, !.made = @ + 1,
                      !.dep = [d \in Services |-> IF d \in Range(dependencies)
                                                 THEN DepWait(d) ELSE "none"],
                      !.first = FirstRejected(t, dependencies, 1)]]
  /\ UNCHANGED <<serviceStatus, servicePromises, inits, waits, background>>
  /\ UNCHANGED <<pmVars, smVars, hcVars, tmVars, cfVars, portTimers, ehVars>>

\* checkStatus of a polling dependency wait finds the service ready or failed
CheckPoll(t, d) ==
  LET currentStatus == serviceStatus[d] IN
  /\ ~InitializerMicrotask
  /\ checks[t].running > 0 /\ checks[t].dep[d] = "poll"
  /\ currentStatus \in {"ready", "failed"}
  /\ checks' = [checks EXCEPT ![t] =
       IF currentStatus = "ready" THEN [@ EXCEPT !.dep[d] = "resolved"]
       ELSE [@ EXCEPT !.dep[d] = "rejected", !.first = FirstError(t, checks[t], d, "failed")]]
  /\ UNCHANGED <<serviceStatus, servicePromises, inits, waits, background>>
  /\ UNCHANGED <<pmVars, smVars, hcVars, tmVars, cfVars, portTimers, ehVars>>

\* the timeout of a dependency wait fires first
CheckTimeout(t, d) ==
  /\ ~InitializerMicrotask
  /\ checks[t].running > 0 /\ checks[t].dep[d] \in {"race", "poll"}
  /\ checks' = [checks EXCEPT ![t].dep[d] = "rejected",
                              ![t].first = FirstError(t, checks[t], d, "timeout")]
  /\ UNCHANGED <<serviceStatus, servicePromises, inits, waits, background>>
  /\ UNCHANGED <<pmVars, smVars, hcVars, tmVars, cfVars, portTimers, ehVars>>

\* Promise.all has settled: the finally block deletes the key and the
\* promise of the check settles for all who hold it
CheckSettle(t) ==
  /\ CheckSettled(t)
  /\ checks' = [checks EXCEPT ![t] =
       [NoCheck EXCEPT !.running = checks[t].running - 1,
                       !.made = checks[t].made,
                       !.res = IF checks[t].first = NoError THEN "resolved" ELSE "rejected",
                       !.err = checks[t].first,
                       !.got = checks[t].got + checks[t].callers,
                       !.share = checks[t].callers,
                       !.failed = {d \in Services : checks[t].dep[d] = "rejected"}]]
  /\ UNCHANGED <<serviceStatus, servicePromises, inits, waits, background>>
  /\ UNCHANGED <<pmVars, smVars, hcVars, tmVars, cfVars, portTimers, ehVars>>

\* ------------------------------------ startBackgroundInitialization ----
\* the four initializeService calls, up to await Promise.allSettled
StartBackgroundInitialization ==
  LET out == [s \in Services |-> initializeService(s, "async")] IN
  /\ background.pc = "idle"
  /\ serviceStatus' = StatusAfter(out)
  /\ servicePromises' = PromisesAfter(out)
  /\ inits' = InitsAfter(out, "background")
  /\ background' = [pc |-> "waiting",
                    tasks |-> [s \in Services |->
                                 IF out[s] = "resolved" THEN "fulfilled"
                                 ELSE IF out[s] = "stale" THEN "rejected"
                                 ELSE "pending"]]
  /\ UNCHANGED <<waits, checks>>
  /\ UNCHANGED <<pmVars, smVars, hcVars, tmVars, cfVars, portTimers, ehVars>>

\* Promise.allSettled has settled: the summary is logged and
\* startBackgroundInitialization returns
BackgroundSettle ==
  /\ BackgroundSettled
  /\ background' = [background EXCEPT !.pc = "done"]
  /\ UNCHANGED <<serviceStatus, servicePromises, inits, waits, checks>>
  /\ UNCHANGED <<pmVars, smVars, hcVars, tmVars, cfVars, portTimers, ehVars>>

\* --------------------------------------------------- ConfigValidator ----
\* the value of an environment variable: its characters, <<>> when it is
\* unset or empty
MaxPort == 65535
MinInterval == 100
DigitChars == <<"0", "1", "2", "3", "4", "5", "6", "7", "8", "9">>
IsDigit(ch) == \E i \in 1..10 : DigitChars[i] = ch
DigitVal(ch) == (CHOOSE i \in 1..10 : DigitChars[i] = ch) - 1
IsSpace(ch) == ch = " "

\* env.X || fallback
OrDefault(text, fallback) == IF text = <<>> THEN fallback ELSE text

\* the value of the digits of text from position i on, after acc
RECURSIVE ReadDigits(_, _, _)
ReadDigits(text, i, acc) ==
  IF i > Len(text) \/ ~IsDigit(text[i]) THEN acc
  ELSE ReadDigits(text, i + 1, 10 * acc + DigitVal(text[i]))

\* the first position of text that holds no white space
RECURSIVE SkipSpace(_, _)
SkipSpace(text, i) ==
  IF i <= Len(text) /\ IsSpace(text[i]) THEN SkipSpace(text, i + 1) ELSE i

\* parseInt(text, 10): white space, a sign, then digits up to the first
\* character that is none; NaN without a digit
parseInt(text) ==
  LET i == SkipSpace(text, 1)
      signed == i <= Len(text) /\ text[i] \in {"+", "-"}
      j == IF signed THEN i + 1 ELSE i
  IN IF j > Len(text) \/ ~IsDigit(text[j]) THEN [nan |-> TRUE, n |-> 0]
     ELSE [nan |-> FALSE,
           n |-> IF signed /\ text[i] = "-" THEN 0 - ReadDigits(text, j, 0)
                 ELSE ReadDigits(text, j, 0)]

\* host.trim()
RECURSIVE Trim(_)
Trim(text) ==
  IF text = <<>> THEN text
  ELSE IF IsSpace(Head(text)) THEN Trim(Tail(text))
  ELSE IF IsSpace(text[Len(text)]) THEN Trim(SubSeq(text, 1, Len(text) - 1))
  ELSE text

\* the outcome of a validation: the error thrown, or the value returned
Throws(error) == [threw |-> TRUE, error |-> error, value |-> <<>>]
Returns(value) == [threw |-> FALSE, error |-> "none", value |-> value]

\* port is a number parseInt returned, so Number.isInteger(port) holds
validatePort(port) ==
  IF port < 1 \/ port > MaxPort THEN Throws("Invalid port number") ELSE Returns(port)

validateHost(host) ==
  IF host = <<>> \/ Len(Trim(host)) = 0 THEN Throws("Invalid host")
  ELSE Returns(Trim(host))

validatePath(path) ==
  IF path = <<>> \/ Head(path) # "/" THEN Throws("Invalid path") ELSE Returns(path)

\* faulty variant: any interval is taken
validateIntervalNoMinimum(interval, name) == Returns(interval)

validateInterval(interval, name) ==
  IF interval < MinInterval THEN Throws(name) ELSE Returns(interval)

\* the first check that throws decides
FirstThrow(results) ==
  LET bad == {i \in 1..Len(results) : results[i].threw} IN
  IF bad = {} THEN Returns(<<>>)
  ELSE results[CHOOSE i \in bad : \A j \in bad : i <= j]

validateHealthEndpointConfig(e) ==
  LET rawPort == OrDefault(e.HEALTH_PORT, <<"8", "0", "8", "0">>)
      port == parseInt(rawPort)
      vPort == IF port.nan THEN Throws("Invalid HEALTH_PORT value") ELSE validatePort(port.n)
      vHost == validateHost(OrDefault(e.HEALTH_HOST,
                              <<"1", "2", "7", ".", "0", ".", "0", ".", "1">>))
      vPath == validatePath(OrDefault(e.HEALTH_PATH, <<"/", "h", "e", "a", "l", "t", "h">>))
      first == FirstThrow(<<vPort, vHost, vPath>>)
  IN IF first.threw THEN first
     ELSE Returns([port |-> vPort.value, host |-> vHost.value,
                   enabled |-> e.HEALTH_ENDPOINT = <<"t", "r", "u", "e">>,
                   path |-> vPath.value])

validateServerConfig(e) ==
  LET checkInterval ==
        parseInt(OrDefault(e.HEALTH_CHECK_INTERVAL, <<"3", "0", "0", "0", "0">>))
      dependencyTimeout == parseInt(OrDefault(e.DEPENDENCY_TIMEOUT, <<"5", "0", "0", "0">>))
      pollingInterval == parseInt(OrDefault(e.POLLING_INTERVAL, <<"1", "0", "0">>))
      nan == FirstThrow(<<
        IF checkInterval.nan THEN Throws("Invalid HEALTH_CHECK_INTERVAL")
                                   ELSE Returns(<<>>),
        IF dependencyTimeout.nan THEN Throws("Invalid DEPENDENCY_TIMEOUT") ELSE Returns(<<>>),
        IF pollingInterval.nan THEN Throws("Invalid POLLING_INTERVAL") ELSE Returns(<<>>)>>)
      healthEndpoint == validateHealthEndpointConfig(e)
      vCheck == validateInterval(checkInterval.n, "healthCheckInterval")
      vDep == validateInterval(dependencyTimeout.n, "dependencyTimeout")
      vPoll == validateInterval(pollingInterval.n, "pollingInterval")
      first == FirstThrow(<<nan, healthEndpoint, vCheck, vDep, vPoll>>)
  IN IF first.threw THEN first
     ELSE Returns([healthEndpoint |-> healthEndpoint.value,
                   healthCheckInterval |-> vCheck.value,
                   dependencyTimeout |-> vDep.value,
                   pollingInterval |-> vPoll.value])

\* process.env with none of the variables set
NoEnv == [HEALTH_PORT |-> <<>>, HEALTH_HOST |-> <<>>, HEALTH_PATH |-> <<>>,
          HEALTH_ENDPOINT |-> <<>>, HEALTH_CHECK_INTERVAL |-> <<>>,
          DEPENDENCY_TIMEOUT |-> <<>>, POLLING_INTERVAL |-> <<>>]

\* new MCPServerInitializer(): the configuration is validated; a rejected
\* one makes the constructor throw before any service is set to pending
ConstructInitializer ==
  LET validated == validateServerConfig(env) IN
  /\ constructed = "no"
  /\ config' = validated
  /\ constructed' = IF validated.threw THEN "failed" ELSE "ok"
  /\ serviceStatus' = IF validated.threw THEN serviceStatus
                      ELSE [s \in Services |-> "pending"]
  /\ UNCHANGED <<env, servicePromises, inits, waits, checks, background>>
  /\ UNCHANGED <<pmVars, smVars, hcVars, tmVars, portTimers, ehVars>>

InitSI ==
  /\ env = NoEnv
  /\ config = validateServerConfig(NoEnv)
  /\ constructed = "ok"
  /\ serviceStatus = [s \in Services |-> "pending"]
  /\ servicePromises = [s \in Services |-> "none"]
  /\ inits = [s \in Services |-> NoInit]
  /\ waits = [w \in Waiters |-> NoWait]
  /\ checks = [t \in Tools |-> NoCheck]
  /\ background = NoBackground

\* ------------------------------------------------------ collection ----
\* a child whose handle can still emit an event
ChildActive(ch) == info[ch].pid \in alive \/ pend[ch] # {}
\* something still refers to object e: the registry, a call in flight, the
\* handlers of a child that can still emit an event
Referenced(e) ==
  \/ \E k \in Keys : processes[k] = e \/ lastStart[k] = e
  \/ \E c \in Calls : calls[c].pd = e \/ calls[c].own = e \/ calls[c].wproc = e
  \/ \E ch \in SpawnIds : bound[ch] = e /\ ChildActive(ch)
IsGarbage(e) ==
  /\ info[e].status # "none"
  /\ ~Referenced(e)
  /\ e \in SpawnIds => ~ChildActive(e)
\* objects are collected as soon as nothing refers to them
Collected == \A e \in EntryIds : ~IsGarbage(e)

\* the garbage collector frees the objects nothing refers to, with the
\* handles of their ended children
Collect ==
  /\ \E e \in EntryIds : IsGarbage(e)
  /\ info' = [e \in EntryIds |-> IF IsGarbage(e) THEN NoInfo ELSE info[e]]
  /\ bound' = [ch \in SpawnIds |-> IF IsGarbage(ch) THEN 0 ELSE bound[ch]]
  /\ UNCHANGED <<processes, alive, pend, calls, restore, made, lastStart>>
  /\ ret' = NoRet
  /\ UNCHANGED <<smVars, hcVars, siVars, tmVars, cfVars, portTimers, ehVars>>

\* ------------------------------- restoreProcessState (constructor) ----
NoRestore == [pc |-> "load", dev |-> NoMap, todo |-> {}]

\* loadState() completes
RestoreLoad ==
  LET state == loadState(stateFile) IN
  /\ restore.pc = "load"
  /\ backups' = BackupsAfter(stateFile)
  /\ restore' = IF state.kind = "object" /\ state.f["devProcesses"].p
                   /\ \E k \in Keys : state.f["devProcesses"].m[k].pid # 0
                THEN [pc |-> "loop", dev |-> state.f["devProcesses"].m,
                      todo |-> {k \in Keys : state.f["devProcesses"].m[k].pid # 0}]
                ELSE [NoRestore EXCEPT !.pc = "done"]
  /\ UNCHANGED <<processes, info, alive, pend, bound, calls, made, lastStart>>
  /\ ret' = NoRet
  /\ UNCHANGED <<stateFile, lockFile, saves, clock, lastSave, lastSkip, loaded, ensure,
               hcVars, siVars, tmVars, cfVars, portTimers, ehVars>>

\* one iteration of the loop over state.devProcesses; after the last one
\* an empty registry makes clearDevProcessState() begin
RestoreEntry(dir) ==
  LET processInfo == restore.dev[dir]
      e == RestoredId(dir)
      todo == restore.todo \ {dir}
  IN /\ restore.pc = "loop"
     /\ dir \in restore.todo
     /\ IF isProcessRunning(processInfo.pid)
        THEN /\ processes' = [processes EXCEPT ![dir] = e]
             /\ info' = [info EXCEPT ![e] = [dir |-> dir, pid |-> processInfo.pid,
                                             status |-> "running", child |-> FALSE,
                                             ports |-> {}, parsed |-> {}, signalled |-> FALSE]]
        ELSE UNCHANGED <<processes, info>>
     /\ restore' = [restore EXCEPT !.todo = todo,
                       !.pc = IF todo # {} THEN "loop"
                              ELSE IF \A k \in Keys : processes'[k] = 0 THEN "clear"
                              ELSE "done"]
     /\ UNCHANGED <<alive, pend, bound, calls, made, lastStart>>
     /\ ret' = NoRet
     /\ UNCHANGED <<smVars, hcVars, siVars, tmVars, cfVars, portTimers, ehVars>>

\* clearDevProcessState: loadState() completes, then saveState(restState)
\* with restState = the loaded state without its devProcesses key
RestoreClear ==
  LET currentState == loadState(stateFile)
      restState == [currentState.f EXCEPT !["devProcesses"] = Missing]
  IN /\ restore.pc = "clear"
     /\ restore' = [restore EXCEPT !.pc = "done"]
     /\ backups' = BackupsAfter(stateFile)
     /\ IF currentState.kind = "object"
        THEN /\ CanSave
             /\ saves' = BeginSave(restState)
        ELSE UNCHANGED saves
     /\ UNCHANGED <<processes, info, alive, pend, bound, calls, made, lastStart>>
     /\ ret' = NoRet
     /\ UNCHANGED <<stateFile, lockFile, clock, lastSave, lastSkip, loaded, ensure,
               hcVars, siVars, tmVars, cfVars, portTimers, ehVars>>

\* ------------------------------------------------------------- Init ----
\* what the previous run of the server left in the snapshot
OldMaps == {[k \in Keys |-> IF k \in K THEN [pid |-> OldPid(k), status |-> "running"] ELSE NoProc]
              : K \in SUBSET CoreKeys}
OldState(m) == [DefaultState(0) EXCEPT !["devProcesses"] = Dev(m)]

InitPM ==
  /\ pend = [e \in SpawnIds |-> {}]
  /\ bound = [e \in SpawnIds |-> 0]
  /\ calls = [c \in Calls |-> NoCall]
  /\ made = 0
  /\ lastStart = [k \in Keys |-> 0]
  /\ ret = NoRet
  /\ portTimers = {}
  /\ errorHandlers = "index"
  /\ recoveries = NoRecoveries
  /\ shutdown = NoShutdown
  /\ exited = "no"

InitSM ==
  /\ saves = [s \in Savers |-> NoSave]
  /\ clock = 1
  /\ backups = {}
  /\ lastSave = NoLastSave
  /\ lastSkip = NoSkip
  /\ loaded = NoLoad
  /\ ensure = NoEnsure

InitHC ==
  /\ lastHealthCheck = NoHealth
  /\ recover = NoRecover
  /\ healthCheckInterval = 0
  /\ timers = {}

\* the registry once restoreProcessState is over: the recorded processes
\* that were found alive are back as running, without a child handle
Restored(m, live) ==
  /\ processes = [k \in Keys |-> IF m[k].pid \in live THEN RestoredId(k) ELSE 0]
  /\ info = [e \in EntryIds |->
               IF \E k \in Keys : e = RestoredId(k) /\ m[k].pid \in live
               THEN LET k == CHOOSE k \in Keys : e = RestoredId(k)
                    IN [dir |-> k, pid |-> m[k].pid, status |-> "running", child |-> FALSE,
                        ports |-> {}, parsed |-> {}, signalled |-> FALSE]
               ELSE NoInfo]

\* the supervisor has been constructed and restoreProcessState is over
Init ==
  /\ InitPM /\ InitSM /\ InitHC /\ InitSI
  /\ restore = [NoRestore EXCEPT !.pc = "done"]
  /\ lockFile = FALSE
  /\ \E m \in OldMaps :
       /\ stateFile = File("object", OldState(m))
       /\ alive \in SUBSET {m[k].pid : k \in {d \in Keys : m[d].pid # 0}}
       /\ Restored(m, alive)

\* ------------------------------------------------- the event loop ----
\* a call stands after an await that a resolved promise ends (an async
\* function without I/O: isProcessRunning, killProcess, startLogging,
\* stopLogging): its continuation is a microtask
MicrotaskPending ==
  \E c \in Calls : \/ calls[c].pc \in {"cget", "cdel", "handlers", "kill"}
                    \/ (calls[c].pc = "spawn" /\ FreeIds # {})
\* node emits the spawn event, and the error event of a failed spawn, by
\* process.nextTick
TickPending ==
  \E ch \in SpawnIds : bound[ch] # 0 /\ pend[ch] \cap {"spawn", "error"} # {}
SavePending == \E s \in Savers : saves[s].pc # "idle"

\* node runs the microtasks, then the nextTick callbacks, then the
\* callbacks of files, timers and children.  The file operations of a save
\* are taken to complete before the next timer, child exit or request.
AtMicrotask == Collected
AtTick      == Collected /\ ~MicrotaskPending
AtFile      == Collected /\ ~MicrotaskPending /\ ~TickPending
AtTimer     == AtFile /\ ~SavePending
\* a request of a client, or an event of the OS, arrives
AtRequest   == Collected /\ ~SavePending

Next ==
  \/ Collect
  \/ AtRequest /\ \E c \in Calls, k \in CoreKeys : StartCall(c, k)
  \/ AtRequest /\ \E c \in Calls, k \in CoreKeys : StopCall(c, k)
  \/ AtRequest /\ \E c \in Calls, k \in CoreKeys : RestartCall(c, k)
  \/ AtRequest /\ \E k \in CoreKeys : GetStatus(k)
  \/ AtRequest /\ \E p \in Pids : ProcessExit(p)
  \/ AtMicrotask /\ \E c \in Calls : StartSpawn(c)
  \/ AtMicrotask /\ \E c \in Calls : StartHandlers(c)
  \/ AtMicrotask /\ \E c \in Calls : StopKill(c)
  \/ AtMicrotask /\ \E c \in Calls : CleanupGet(c)
  \/ AtMicrotask /\ \E c \in Calls : CleanupDelete(c)
  \/ AtTick /\ \E ch \in SpawnIds : OnSpawn(ch)
  \/ AtTick /\ \E ch \in SpawnIds : OnError(ch)
  \/ AtFile /\ \E s \in Savers : SaveCreateLock(s)
  \/ AtFile /\ \E s \in Savers : SaveRead(s)
  \/ AtFile /\ \E s \in Savers : SaveWrite(s)
  \/ AtFile /\ \E s \in Savers : SaveRemoveLock(s)
  \/ AtTimer /\ \E c \in Calls : WaitRunning(c)
  \/ AtTimer /\ \E c \in Calls : WaitError(c)
  \/ AtTimer /\ \E c \in Calls : WaitTimeout(c)
  \/ AtTimer /\ \E c \in Calls : RestartStart(c)
  \/ AtTimer /\ \E c \in Calls : StopProbe(c)
  \/ AtTimer /\ \E ch \in SpawnIds : OnExit(ch)

Spec == Init /\ [][Next]_vars

\* the server with the listeners of index.ts; uncaught errors are raised,
\* processes end, and the saves of the recoveries run
NextErrors ==
  \/ Running /\ AtRequest /\ SetupSafeErrorHandlers
  \/ Running /\ AtRequest /\ UncaughtError
  \/ Running /\ AtRequest /\ \E p \in Pids : ProcessExit(p)
  \/ Running /\ AtFile /\ \E s \in Savers : SaveCreateLock(s)
  \/ Running /\ AtFile /\ \E s \in Savers : SaveRead(s)
  \/ Running /\ AtFile /\ \E s \in Savers : SaveWrite(s)
  \/ Running /\ AtFile /\ \E s \in Savers : SaveRemoveLock(s)
  \/ Running /\ AtFile /\ RecoveryEnd
  \/ Running /\ AtFile /\ \E unlinked \in BOOLEAN : CleanupDone(unlinked)
  \/ Running /\ AtTimer /\ \E ok, old \in BOOLEAN : RecoveryBegin(ok, old)
  \/ Running /\ AtTimer /\ ShutdownTimeout

SpecErrors == Init /\ [][NextErrors]_vars

\* the supervisor with an empty registry and calls about both directories
InitKeys ==
  /\ InitPM /\ InitSM /\ InitHC /\ InitSI
  /\ restore = [NoRestore EXCEPT !.pc = "done"]
  /\ lockFile = FALSE
  /\ stateFile = File("object", OldState(NoMap))
  /\ alive = {}
  /\ Restored(NoMap, alive)

NextKeys ==
  \/ Collect
  \/ AtRequest /\ \E c \in Calls, k \in Keys : StartCall(c, k)
  \/ AtRequest /\ \E c \in Calls, k \in Keys : StopCall(c, k)
  \/ AtRequest /\ \E c \in Calls, k \in Keys : RestartCall(c, k)
  \/ AtRequest /\ \E p \in Pids : ProcessExit(p)
  \/ AtMicrotask /\ \E c \in Calls : StartSpawn(c)
  \/ AtMicrotask /\ \E c \in Calls : StartHandlers(c)
  \/ AtMicrotask /\ \E c \in Calls : StopKill(c)
  \/ AtMicrotask /\ \E c \in Calls : CleanupGet(c)
  \/ AtMicrotask /\ \E c \in Calls : CleanupDelete(c)
  \/ AtTick /\ \E ch \in SpawnIds : OnSpawn(ch)
  \/ AtTick /\ \E ch \in SpawnIds : OnError(ch)
  \/ AtFile /\ \E s \in Savers : SaveCreateLock(s)
  \/ AtFile /\ \E s \in Savers : SaveRead(s)
  \/ AtFile /\ \E s \in Savers : SaveWrite(s)
  \/ AtFile /\ \E s \in Savers : SaveRemoveLock(s)
  \/ AtTimer /\ \E c \in Calls : WaitRunning(c)
  \/ AtTimer /\ \E c \in Calls : WaitError(c)
  \/ AtTimer /\ \E c \in Calls : WaitTimeout(c)
  \/ AtTimer /\ \E c \in Calls : RestartStart(c)
  \/ AtTimer /\ \E c \in Calls : StopProbe(c)
  \/ AtTimer /\ \E ch \in SpawnIds : OnExit(ch)

SpecKeys == InitKeys /\ [][NextKeys]_vars

\* starts of the directory of Spec, with the output of the children and
\* the delayed port detection
NextPorts ==
  \/ Collect
  \/ AtRequest /\ \E c \in Calls, k \in CoreKeys : StartCall(c, k)
  \/ AtRequest /\ \E p \in Pids : ProcessExit(p)
  \/ AtMicrotask /\ \E c \in Calls : StartSpawn(c)
  \/ AtMicrotask /\ \E c \in Calls : StartHandlers(c)
  \/ AtMicrotask /\ \E c \in Calls : CleanupGet(c)
  \/ AtMicrotask /\ \E c \in Calls : CleanupDelete(c)
  \/ AtTick /\ \E ch \in SpawnIds : OnSpawn(ch)
  \/ AtTick /\ \E ch \in SpawnIds : OnError(ch)
  \/ AtFile /\ \E s \in Savers : SaveCreateLock(s)
  \/ AtFile /\ \E s \in Savers : SaveRead(s)
  \/ AtFile /\ \E s \in Savers : SaveWrite(s)
  \/ AtFile /\ \E s \in Savers : SaveRemoveLock(s)
  \/ AtTimer /\ \E c \in Calls : WaitRunning(c)
  \/ AtTimer /\ \E c \in Calls : WaitError(c)
  \/ AtTimer /\ \E c \in Calls : WaitTimeout(c)
  \/ AtTimer /\ \E ch \in SpawnIds : OnExit(ch)
  \/ AtTimer /\ \E ch \in SpawnIds, found \in SUBSET PortSet : OnData(ch, found)
  \/ AtTimer /\ \E t \in portTimers, result \in SUBSET PortSet : DetectPorts(t, result)

SpecPorts == Init /\ [][NextPorts]_vars

\* ------------------------------------------- the state store alone ----
\* the supervisor is idle; clients call saveState and loadState
InitStore ==
  /\ InitPM /\ InitSM /\ InitHC /\ InitSI
  /\ processes = [k \in Keys |-> 0]
  /\ info = [e \in EntryIds |-> NoInfo]
  /\ alive = {}
  /\ lockFile \in BOOLEAN      \* TRUE: a lock file a crashed run left behind
  /\ restore = [NoRestore EXCEPT !.pc = "done"]
  /\ stateFile \in {File("absent", NoFields), File("empty", NoFields),
                    File("garbage", NoFields), File("nonobject", NoFields),
                    File("object", OldState(NoMap))}

NextStore ==
  \/ \E x \in Partials : SaveStateCall(x)
  \/ SaveStep
  \/ LoadStateCall
  \/ Tick

SpecStore == InitStore /\ [][NextStore]_vars

\* ------------------------------ the constructor of ProcessManager ----
\* what a previous run can have recorded: per directory nothing, or its
\* process as running or stopped
RecordedMaps ==
  {[k \in Keys |-> IF st[k] = "none" THEN NoProc ELSE [pid |-> OldPid(k), status |-> st[k]]]
     : st \in [Keys -> {"none", "running", "stopped"}]}

\* the supervisor is being constructed: the registry is empty and
\* restoreProcessState has been called; some of the recorded processes
\* still exist
InitRestore ==
  /\ InitPM /\ InitSM /\ InitHC /\ InitSI
  /\ processes = [k \in Keys |-> 0]
  /\ info = [e \in EntryIds |-> NoInfo]
  /\ restore = NoRestore
  /\ lockFile \in BOOLEAN      \* TRUE: a lock file a crashed run left behind
  /\ \/ /\ stateFile \in {File("absent", NoFields), File("garbage", NoFields)}
        /\ alive = {}
     \/ \E m \in RecordedMaps :
          /\ stateFile = File("object", OldState(m))
          /\ alive \in SUBSET {m[k].pid : k \in {d \in Keys : m[d].pid # 0}}

NextRestore ==
  \/ AtFile /\ RestoreLoad
  \/ AtMicrotask /\ \E dir \in Keys : RestoreEntry(dir)
  \/ AtFile /\ RestoreClear
  \/ AtFile /\ \E s \in Savers : SaveCreateLock(s)
  \/ AtFile /\ \E s \in Savers : SaveRead(s)
  \/ AtFile /\ \E s \in Savers : SaveWrite(s)
  \/ AtFile /\ \E s \in Savers : SaveRemoveLock(s)

SpecRestore == InitRestore /\ [][NextRestore]_vars

\* ------------------------------------ recovery and health checking ----
\* the supervisor receives no start/stop/restart request: processes end,
\* the health check timer fires, clients call ensureStateConsistency and
\* autoRecover
NextRecover ==
  \/ Collect
  \/ AtRequest /\ \E p \in Pids : ProcessExit(p)
  \/ AtRequest /\ EnsureCall
  \/ AtRequest /\ \E max \in 1..MaxAttempts, force \in BOOLEAN : AutoRecoverCall(max, force)
  \/ AtRequest /\ StartPeriodicHealthCheck
  \/ AtRequest /\ StopPeriodicHealthCheck
  \/ AtMicrotask /\ \E c \in Calls : StartSpawn(c)
  \/ AtMicrotask /\ \E c \in Calls : StartHandlers(c)
  \/ AtMicrotask /\ \E c \in Calls : CleanupGet(c)
  \/ AtMicrotask /\ \E c \in Calls : CleanupDelete(c)
  \/ AtMicrotask /\ RecoverStatus
  \/ AtMicrotask /\ \E k \in Keys : RecoverCandidate(k)
  \/ AtMicrotask /\ RecoverResume
  \/ AtMicrotask /\ RecoverEnsured
  \/ AtTick /\ \E ch \in SpawnIds : OnSpawn(ch)
  \/ AtTick /\ \E ch \in SpawnIds : OnError(ch)
  \/ AtFile /\ \E s \in Savers : SaveCreateLock(s)
  \/ AtFile /\ \E s \in Savers : SaveRead(s)
  \/ AtFile /\ \E s \in Savers : SaveWrite(s)
  \/ AtFile /\ \E s \in Savers : SaveRemoveLock(s)
  \/ AtFile /\ RecoverInfo
  \/ AtFile /\ RecoverEnsure
  \/ AtTimer /\ \E c \in Calls : WaitRunning(c)
  \/ AtTimer /\ \E c \in Calls : WaitError(c)
  \/ AtTimer /\ \E c \in Calls : WaitTimeout(c)
  \/ AtTimer /\ \E ch \in SpawnIds : OnExit(ch)
  \/ AtTimer /\ PeriodicHealthCheck
  \/ AtTimer /\ RecoverSettle
  \/ AtTimer /\ RecoverRetry

SpecRecover == Init /\ [][NextRecover]_vars

\* ------------------------------------------------ autoRecover alone ----
\* what node does by itself once a call has been made: continuations,
\* events of the children, file operations and timers
RecoverSteps ==
  \/ Collect
  \/ AtMicrotask /\ \E c \in Calls : StartSpawn(c)
  \/ AtMicrotask /\ \E c \in Calls : StartHandlers(c)
  \/ AtMicrotask /\ \E c \in Calls : CleanupGet(c)
  \/ AtMicrotask /\ \E c \in Calls : CleanupDelete(c)
  \/ AtMicrotask /\ RecoverStatus
  \/ AtMicrotask /\ \E k \in Keys : RecoverCandidate(k)
  \/ AtMicrotask /\ RecoverResume
  \/ AtMicrotask /\ RecoverEnsured
  \/ AtTick /\ \E ch \in SpawnIds : OnSpawn(ch)
  \/ AtTick /\ \E ch \in SpawnIds : OnError(ch)
  \/ AtFile /\ \E s \in Savers : SaveCreateLock(s)
  \/ AtFile /\ \E s \in Savers : SaveRead(s)
  \/ AtFile /\ \E s \in Savers : SaveWrite(s)
  \/ AtFile /\ \E s \in Savers : SaveRemoveLock(s)
  \/ AtFile /\ RecoverInfo
  \/ AtFile /\ RecoverEnsure
  \/ AtTimer /\ \E c \in Calls : WaitRunning(c)
  \/ AtTimer /\ \E c \in Calls : WaitError(c)
  \/ AtTimer /\ \E c \in Calls : WaitTimeout(c)
  \/ AtTimer /\ \E ch \in SpawnIds : OnExit(ch)
  \/ AtTimer /\ RecoverSettle
  \/ AtTimer /\ RecoverRetry

\* processes end and a client calls autoRecover
NextAutoRecover ==
  \/ AtRequest /\ \E p \in Pids : ProcessExit(p)
  \/ AtRequest /\ \E max \in 1..MaxAttempts, force \in BOOLEAN : AutoRecoverCall(max, force)
  \/ RecoverSteps

\* node runs every callback that is due: a continuation, an event, a
\* completed file operation or a timer that has run out does not wait for
\* ever.  Nothing is assumed of the processes or of the clients
SpecAutoRecover == Init /\ [][NextAutoRecover]_vars /\ WF_vars(RecoverSteps)


\* ------------------------------------------- the initializer alone ----
\* the supervisor and the store are idle; clients call initializeService,
\* waitForService, ensureToolDependencies, startBackgroundInitialization
NextInitializer ==
  \/ \E w \in Waiters, s \in CoreServices, fn \in {"async", "throws"} :
        InitializeServiceCall(w, s, fn)
  \/ \E w \in Waiters, s \in CoreServices : WaitForServiceCall(w, s)
  \/ StartBackgroundInitialization
  \/ \E s \in Services, ok \in BOOLEAN : InitSettle(s, ok)
  \/ \E w \in Waiters : WaitPoll(w)
  \/ \E w \in Waiters : WaitForTimeout(w)
  \/ BackgroundSettle

InitInitializer ==
  /\ InitPM /\ InitSM /\ InitHC /\ InitSI
  /\ processes = [k \in Keys |-> 0]
  /\ info = [e \in EntryIds |-> NoInfo]
  /\ alive = {}
  /\ lockFile = FALSE
  /\ restore = [NoRestore EXCEPT !.pc = "done"]
  /\ stateFile = File("object", OldState(NoMap))

SpecInitializer == InitInitializer /\ [][NextInitializer]_vars

\* ------------------------------------------ waiting for a service ----
\* clients call initializeService and waitForService; no background
\* initialization
NextWaitFor ==
  \/ \E w \in Waiters, s \in CoreServices, fn \in {"async", "throws"} :
        InitializeServiceCall(w, s, fn)
  \/ \E w \in Waiters, s \in CoreServices : WaitForServiceCall(w, s)
  \/ \E s \in Services, ok \in BOOLEAN : InitSettle(s, ok)
  \/ \E w \in Waiters : WaitPoll(w)
  \/ \E w \in Waiters : WaitForTimeout(w)

\* a timer that waitForService has set fires: node runs the callback of
\* every timer that is due.  Nothing is assumed of the init functions,
\* whose promise may never settle
SpecWaitFor ==
  /\ InitInitializer /\ [][NextWaitFor]_vars
  /\ WF_vars(\E w \in Waiters : WaitForTimeout(w))

\* ------------------------------------------- the dependency checks ----
\* clients initialize the services and call ensureToolDependencies
NextDependencies ==
  \/ \E w \in Waiters, s \in CoreServices : InitializeServiceCall(w, s, "async")
  \/ \E s \in Services, ok \in BOOLEAN : InitSettle(s, ok)
  \/ \E t \in Tools : EnsureToolDependenciesCall(t)
  \/ \E t \in Tools, d \in Services : CheckPoll(t, d)
  \/ \E t \in Tools, d \in Services : CheckTimeout(t, d)
  \/ \E t \in Tools : CheckSettle(t)

SpecDependencies == InitInitializer /\ [][NextDependencies]_vars

\* ------------------------------------ constructing the initializer ----
\* the texts the variables of the environment are drawn from
PortTexts == {<<>>, <<"0">>, <<"1">>, <<"6", "5", "5", "3", "5">>,
              <<"6", "5", "5", "3", "6">>, <<"8", "0", ".", "5">>, <<"8", "0", "x">>,
              <<"x">>, <<"-", "1">>, <<" ", "8", "0">>}
HostTexts == {<<>>, <<"h">>, <<" ">>, <<" ", "h", " ">>}
PathTexts == {<<>>, <<"/">>, <<"h">>, <<"/", "h">>}
IntervalTexts == {<<>>, <<"9", "9">>, <<"1", "0", "0">>, <<"x">>}
Envs == [HEALTH_PORT : PortTexts, HEALTH_HOST : HostTexts, HEALTH_PATH : PathTexts,
         HEALTH_ENDPOINT : {<<>>, <<"t", "r", "u", "e">>},
         HEALTH_CHECK_INTERVAL : IntervalTexts, DEPENDENCY_TIMEOUT : IntervalTexts,
         POLLING_INTERVAL : IntervalTexts]

\* the server starts: no initializer has been constructed yet
InitConfig ==
  /\ InitPM /\ InitSM /\ InitHC
  /\ processes = [k \in Keys |-> 0]
  /\ info = [e \in EntryIds |-> NoInfo]
  /\ alive = {}
  /\ lockFile = FALSE
  /\ restore = [NoRestore EXCEPT !.pc = "done"]
  /\ stateFile = File("object", OldState(NoMap))
  /\ serviceStatus = [s \in Services |-> "absent"]
  /\ servicePromises = [s \in Services |-> "none"]
  /\ inits = [s \in Services |-> NoInit]
  /\ waits = [w \in Waiters |-> NoWait]
  /\ checks = [t \in Tools |-> NoCheck]
  /\ background = NoBackground
  /\ env \in Envs
  /\ config = Returns(<<>>)
  /\ constructed = "no"

NextConfig == ConstructInitializer

SpecConfig == InitConfig /\ [][NextConfig]_vars

\* ===================================================== properties ====
\* ----------------------------------------------------------- C1 ----
\* C1 as stated: a start(k) that begins after an earlier start(k) returned
\* its managed process, no stop(k) running since that start began, spawns
\* no child and returns that same managed process
C1_SecondStartSpawnsNothing ==
  /\ \A c \in Calls : calls[c].second => calls[c].own = 0
  /\ ret.op = "start" /\ ret.second => ret.res = "ok" /\ ret.ent = ret.prev

\* C1, amended: a start(k) that finds the managed process the previous
\* start(k) returned still registered for k and alive (no stop(k) in
\* between) returns at once, with that same object (hence the same pid),
\* and spawns no child
C1_LiveSecondStartReturnsSame ==
  /\ \A c \in Calls : ~calls[c].live
  /\ ret.op = "start" /\ ret.live =>
       ret.res = "ok" /\ ret.ent = ret.prev /\ ~ret.spawned

\* a second start(k) returned the live managed process of the first
C1_Witness ==
  /\ ret.op = "start" /\ ret.live
  /\ ret.ent = ret.prev /\ ret.ent \in SpawnIds

\* ----------------------------------------------------------- C2 ----
\* the children spawned for k whose process exists
LiveChildren(k) ==
  {ch \in SpawnIds : info[ch].child /\ info[ch].dir = k /\ info[ch].pid \in alive}

\* C2: there are never two live children that were spawned for the same key
C2_OneLiveChildPerKey ==
  \A k \in Keys : Cardinality(LiveChildren(k)) <= 1

\* ----------------------------------------------------------- C3 ----
AllowedTransitions ==
  {<<"starting", "running">>, <<"starting", "error">>,
   <<"running", "stopped">>, <<"running", "error">>}

\* object e exists before and after the step and its status differs
StatusChanges(e) ==
  /\ info[e].status # "none" /\ info'[e].status # "none"
  /\ info[e].status # info'[e].status

\* C3: the status of a registry entry changes only along starting->running,
\* starting->error, running->stopped, running->error
C3_StatusTransitions ==
  [][\A e \in EntryIds :
       StatusChanges(e) => <<info[e].status, info'[e].status>> \in AllowedTransitions]_vars

\* ----------------------------------------------------------- C4 ----
\* a stopDevServer(k) that found no entry for k returns in this step
StopOfNothing == ret'.op = "stop" /\ ret'.ent = 0

\* C4: stop(k) without an entry for k returns true, sends no signal and
\* leaves the registry, the processes and the persisted snapshot as they are
\* (no save is begun either)
C4_StopOfNothingIsNoOp ==
  [][StopOfNothing =>
       /\ ret'.res = "true" /\ ret'.sent = <<>> /\ ~ret'.threw
       /\ UNCHANGED <<processes, info, alive, pend, stateFile, lockFile, saves, backups>>]_vars

\* a stop(k) found no entry after an earlier stop had removed the entry
\* and its removal had been written to the snapshot
C4_Witness ==
  /\ ret.op = "stop" /\ ret.ent = 0 /\ ret.res = "true"
  /\ lastSave.by # 0

\* ----------------------------------------------------------- C5 ----
\* C5: when a stop(k) that no start(k) overlapped returns, it returns true
\* or false, the registry has no entry for k, and false is returned only
\* if the termination sequence threw
C5_StopRemovesEntry ==
  ret.op = "stop" /\ ~ret.overl =>
    /\ ret.res \in {"true", "false"}
    /\ ret.left = 0
    /\ ret.res = "false" => ret.threw

\* a stop whose termination sequence threw returned false, the entry gone
C5_Witness ==
  /\ ret.op = "stop" /\ ~ret.overl /\ ret.ent # 0
  /\ ret.res = "false" /\ ret.threw /\ ret.left = 0

\* ----------------------------------------------------------- C6 ----
\* C6: when a stop(k) that found an entry returns, the process of that
\* entry is dead, SIGTERM was sent first, and SIGKILL only after the probe
\* had found the process alive
C6_DeadWhenStopReturns ==
  ret.op = "stop" /\ ret.ent # 0 =>
    /\ ret.dead
    /\ ret.sent \in {<<>>, <<"SIGTERM">>, <<"SIGTERM", "SIGKILL">>}
    /\ ret.sent = <<"SIGTERM", "SIGKILL">> => ret.probe = "alive"

\* ----------------------------------------------------------- C7 ----
\* C7: a start(k) that spawned a child returns an entry in status running,
\* or throws with the entry in status error
C7_StartEndsRunningOrError ==
  ret.op = "start" /\ ret.spawned =>
    \/ ret.res = "ok" /\ ret.status = "running"
    \/ ret.res = "throw" /\ ret.status = "error"

\* ----------------------------------------------------------- C8 ----
\* a loadState() has just returned, no save is in flight, and the save
\* that wrote the snapshot last (it was not skipped) ran without another
\* save call beside it
LoadFollowsSave ==
  /\ loaded.of # "none"
  /\ InFlight = {}
  /\ lastSave.by # 0 /\ lastSave.solo

\* C8 as stated: save(x) followed by load() returns a snapshot with every
\* top-level field of x, and a timestamp strictly greater than the one the
\* snapshot had before the save
C8_LoadReturnsSavedLaterStamp ==
  LoadFollowsSave =>
    /\ loaded.res.kind = "object"
    /\ \A f \in Fields : lastSave.x[f].p => loaded.res.f[f] = lastSave.x[f]
    /\ FileTs(loaded.res) > lastSave.prev

\* C8, amended: save(x) followed by load() returns a snapshot with every
\* top-level field of x other than timestamp, and a timestamp not smaller
\* than the one the snapshot had before the save
C8_LoadReturnsSavedNotEarlierStamp ==
  LoadFollowsSave =>
    /\ loaded.res.kind = "object"
    /\ \A f \in Fields \ {"timestamp"} :
         lastSave.x[f].p => loaded.res.f[f] = lastSave.x[f]
    /\ FileTs(loaded.res) >= lastSave.prev
    /\ FileTs(loaded.res) >= 0

\* a load after a save that replaced a snapshot within the same millisecond
C8_Witness ==
  /\ LoadFollowsSave
  /\ lastSave.prev >= 0
  /\ FileTs(loaded.res) = lastSave.prev
  /\ lastSave.x["devProcesses"].p

\* ----------------------------------------------------------- C9 ----
\* a saveState call is made while the lock file exists
SkippedSave == lockFile /\ \E x \in Partials : SaveStateCall(x)

\* a loadState() has just returned, no save is in flight, and the last
\* skipped save call found exactly one save in flight
LoadFollowsSkip ==
  /\ loaded.of # "none"
  /\ InFlight = {}
  /\ Cardinality(lastSkip) = 1

\* C9: a save call that finds the lock held writes nothing and leaves the
\* lock and the other save as they are; the load after both returns the
\* data of the save that held the lock
C9_SkippedSaveLeavesHolder ==
  [][/\ SkippedSave =>
          /\ UNCHANGED <<stateFile, lockFile, backups>>
          /\ \A s \in Savers : saves'[s].pc = saves[s].pc /\ saves'[s].x = saves[s].x
     /\ LoadFollowsSkip' =>
          /\ lastSave'.by \in lastSkip'
          /\ loaded'.res.kind = "object"
          /\ \A f \in Fields \ {"timestamp"} :
               lastSave'.x[f].p => loaded'.res.f[f] = lastSave'.x[f]]_vars

\* a load after a save call was skipped and the holder of the lock finished
C9_Witness ==
  /\ LoadFollowsSkip
  /\ lastSave.by \in lastSkip
  /\ ~lockFile

\* ---------------------------------------------------------- C10 ----
\* C10: a load of a file whose content is not valid yields the absent or
\* default snapshot and writes exactly one backup file
C10_InvalidContentOneBackup ==
  loaded.of \in {"empty", "garbage", "nonobject"} =>
    /\ loaded.res \in {File("null", NoFields), File("object", NoFields)}
    /\ loaded.bk = 1


\* ---------------------------------------------------------- C11 ----
\* the status the snapshot records for directory k
PersistedStatus(data, k) ==
  LET state == loadState(data) IN
  IF state.kind = "object" /\ state.f["devProcesses"].p
  THEN state.f["devProcesses"].m[k].status ELSE "none"

\* C11 as stated: when ensureStateConsistency() returns, every entry it
\* found recorded as running with its process gone is recorded as stopped
\* in the snapshot, and the registry entry of the same directory, if there
\* is one, has that same status
C11_EnsureAlignsEntry ==
  [][(ensure'.pc = "done" /\ ensure' # ensure) =>
       \A k \in ensure'.stale :
          /\ PersistedStatus(stateFile', k) = "stopped"
          /\ processes'[k] # 0 => info'[processes'[k]].status = "stopped"]_vars


\* ---------------------------------------------------------- C12 ----
\* C12 as stated: a health check reports isHealthy exactly when the memory
\* check, the supervisor self-check and the child-process check all pass,
\* and its child-process check fails exactly when some entry of the
\* registry is in status error
C12_HealthyIffAllChecks ==
  lastHealthCheck.checked =>
    /\ lastHealthCheck.isHealthy <=>
         (lastHealthCheck.memory /\ lastHealthCheck.processManager
                                 /\ lastHealthCheck.devServer)
    /\ lastHealthCheck.devServer <=> ~lastHealthCheck.errors


\* ---------------------------------------------------------- C15 ----
\* C15 as stated: autoRecover with maxRetries = 2 and without forceRecover,
\* called when the registry holds entries whose processes are all gone and
\* the snapshot records no entry as running, starts a fresh process for the
\* default directory during attempt 1, and returns success when, at the
\* health check after the attempt, memory use is below the limits and no
\* entry is in status error
C15_FreshStartThenSuccess ==
  [][(recover'.pc = "done" /\ recover.pc # "done" /\ recover'.pre
        /\ recover'.max = MaxAttempts /\ ~recover'.force) =>
       /\ recover'.fresh >= 1 /\ recover'.first = 1
       /\ (lastHealthCheck'.memory /\ ~lastHealthCheck'.errors) =>
             recover'.result = "success"]_vars


\* ---------------------------------------------------------- C13 ----
\* a call made while an initialization of its service was in flight
\* invoked no init function
JoinInvokesNothing ==
  \A w \in Waiters :
     (waits[w].st = "idle" /\ waits'[w].st # "idle" /\ waits'[w].flight) =>
        inits'[waits'[w].name].count = inits[waits'[w].name].count

\* the caller whose call began the initialization, or who called while it
\* was in flight
SharesInit(w) == waits[w].mode = "own" \/ waits[w].flight

\* caller w completed as the initialization did
GotInitOutcome(w) ==
  /\ waits[w].st = "resolved" => waits[w].at = "ready"
  /\ waits[w].st = "rejected" => waits[w].err = "init" /\ waits[w].at = "failed"

\* C13 as stated: initializeService and waitForService calls made while an
\* initialization of the service is in flight invoke no init function,
\* and every caller, the first one included, completes with the outcome of
\* that initialization
C13_OneInitOneOutcome ==
  [][/\ JoinInvokesNothing
     /\ \A w \in Waiters : SharesInit(w)' => GotInitOutcome(w)']_vars

\* C13, amended: such calls invoke no init function; every
\* initializeService caller completes with the outcome of that
\* initialization, and a waitForService caller completes with that outcome
\* or, when its timeout elapses first, is rejected with the timeout error
C13_OneInitOutcomeOrTimeout ==
  [][/\ JoinInvokesNothing
     /\ \A w \in Waiters : SharesInit(w)' =>
          \/ GotInitOutcome(w)'
          \/ waits'[w].kind = "wait" /\ waits'[w].st = "rejected"
                                     /\ waits'[w].err = "timeout"]_vars

\* one initialization of a service, one invocation of the init function,
\* and three callers done: the one that began it, an initializeService and
\* a waitForService that joined it, one of the two waiting calls timed out
\* or all resolved
C13_Witness ==
  \E w, v, u \in Waiters :
     /\ waits[w].mode = "own" /\ waits[w].st = "resolved"
     /\ waits[v].kind = "init" /\ waits[v].flight /\ waits[v].st = "resolved"
     /\ waits[u].kind = "wait" /\ waits[u].flight /\ waits[u].st = "resolved"
     /\ waits[v].name = waits[w].name /\ waits[u].name = waits[w].name
     /\ inits[waits[w].name].count = 1


\* ---------------------------------------------------------- C14 ----
\* C14: a dependency check of tool t in which the wait for a dependency
\* failed (the service was or became failed, or the timeout elapsed) was
\* rejected, and the error of a rejected check names t and a dependency of
\* t whose wait failed
C14_FailedDependencyRejects ==
  \A t \in Tools :
     checks[t].res # "none" =>
       /\ checks[t].failed # {} => checks[t].res = "rejected"
       /\ checks[t].res = "rejected" =>
            /\ checks[t].err.tool = t
            /\ checks[t].err.dep \in checks[t].failed
            /\ checks[t].err.dep \in Range(SERVICE_DEPENDENCIES(t))

\* a check of auto_recover was rejected because healthChecker did not
\* become ready in time, stateManager being ready
C14_Witness ==
  /\ checks["auto_recover"].res = "rejected"
  /\ checks["auto_recover"].failed = {"healthChecker"}
  /\ checks["auto_recover"].err = DependencyError("auto_recover", "healthChecker", "timeout")
  /\ serviceStatus["stateManager"] = "ready"


\* ---------------------------------------------------------- C16 ----
\* C16: a service that is ready stays ready, and no step invokes an init
\* function for it
C16_ReadyIsFinal ==
  [][\A s \in Services :
       serviceStatus[s] = "ready" =>
          serviceStatus'[s] = "ready" /\ inits'[s].count = inits[s].count]_vars

\* an initializeService call for a service that was ready has returned at
\* once, the init function of the service invoked once in all
C16_Witness ==
  \E w \in Waiters :
     /\ waits[w].kind = "init" /\ waits[w].mode = "none" /\ waits[w].st = "resolved"
     /\ serviceStatus[waits[w].name] = "ready"
     /\ inits[waits[w].name].count = 1

\* ---------------------------------------------------------- C17 ----
\* the status changes of one initialization; a service whose init function
\* throws at once goes from pending through initializing to failed within
\* one call
StatusSteps == {<<"pending", "initializing">>, <<"initializing", "ready">>,
                <<"initializing", "failed">>, <<"pending", "failed">>}

\* C17 as stated: the status of a service changes only along pending ->
\* initializing -> ready or failed, and a service that is failed stays
\* failed, no step invoking an init function for it
C17_FailedIsFinal ==
  [][\A s \in Services :
       /\ serviceStatus'[s] # serviceStatus[s] =>
             <<serviceStatus[s], serviceStatus'[s]>> \in StatusSteps
       /\ serviceStatus[s] = "failed" =>
             serviceStatus'[s] = "failed" /\ inits'[s].count = inits[s].count]_vars


\* ---------------------------------------------------------- C18 ----
\* how a completed waitForService call ended: resolved only with the
\* service ready, rejected whenever it completed with the service failed,
\* and a rejection carries the error of the failed initialization, "Service
\* failed", or the timeout error
WaitForOutcome(w) ==
  /\ waits[w].st = "resolved" => waits[w].at = "ready" /\ waits[w].err = "none"
  /\ waits[w].at = "failed" => waits[w].st = "rejected"
  /\ waits[w].st = "rejected" =>
       \/ waits[w].err \in {"init", "failed"} /\ waits[w].at = "failed"
       \/ waits[w].err = "timeout"

\* C18: every waitForService call completes, whether the service is
\* pending, initializing or never initialized: it resolves only when the
\* service is ready, is rejected when the service is failed, and is
\* rejected with the timeout error at the latest when its timeout elapses
C18_WaitForCompletes ==
  /\ [](\A w \in Waiters : waits[w].kind = "wait" => WaitForOutcome(w))
  /\ \A w \in Waiters :
        (waits[w].kind = "wait" /\ waits[w].st = "pending") ~> (waits[w].st # "pending")

\* a waitForService for a service nobody initialized was rejected by its
\* timeout, while another joined an initialization and resolved with it
C18_Witness ==
  \E w, v \in Waiters :
     /\ waits[w].kind = "wait" /\ waits[w].mode = "poll" /\ waits[w].st = "rejected"
     /\ waits[w].err = "timeout" /\ waits[w].at = "pending"
     /\ waits[v].kind = "wait" /\ waits[v].mode = "race" /\ waits[v].st = "resolved"


\* ---------------------------------------------------------- C19 ----
\* C19: at most one dependency check per tool is in flight; the record of
\* the tool in dependencyCheckPromises is there exactly while its check is
\* in flight, so it is removed when the check completes, resolved or
\* rejected; and once no check is in flight every call made has been
\* handed the outcome of a check
C19_OneCheckPerTool ==
  \A t \in Tools :
     /\ checks[t].running <= 1
     /\ checks[t].promise <=> checks[t].running = 1
     /\ checks[t].running = 0 => checks[t].got = checks[t].made

\* two concurrent calls for auto_recover were handed the outcome of one
\* check, a rejection, and the record of the tool is gone
C19_Witness ==
  /\ checks["auto_recover"].share = MaxChecks
  /\ checks["auto_recover"].res = "rejected"
  /\ ~checks["auto_recover"].promise


\* ---------------------------------------------------------- C20 ----
\* C20 as stated: startBackgroundInitialization leaves no service pending
\* when it has made its four initializeService calls, and when it returns
\* every service is ready or failed
C20_BackgroundEndsTerminal ==
  [][/\ (background.pc = "idle" /\ background'.pc = "waiting") =>
           \A s \in Services : serviceStatus'[s] # "pending"
     /\ (background.pc = "waiting" /\ background'.pc = "done") =>
           \A s \in Services : serviceStatus'[s] \in {"ready", "failed"}]_vars

\* ---------------------------------------------------------- C28 ----
\* C28 as stated: in every reachable state a service has an entry in
\* servicePromises only while its status is initializing
C28_MarkerOnlyWhileInitializing ==
  \A s \in Services : HasPromise(s) => serviceStatus[s] = "initializing"

\* ---------------------------------------------------------- C29 ----
\* C29 as stated: in an attempt of autoRecover whose health check was
\* unhealthy and in which getStatus() reported no running process, step 2
\* invokes a start: with recorded running entries it goes through them,
\* and without one it starts the default directory, whatever forceRecover
\* is; it never goes on to step 3 having looked at no entry and started
\* nothing
C29_StepTwoStarts ==
  [][(recover.pc = "info" /\ recover'.pc # "info") =>
       IF Candidates(loadState(stateFile)) # {}
       THEN recover'.pc = "cand" /\ recover'.todo # {}
       ELSE /\ recover'.pc = "startwait"
            /\ calls'[recover'.call].dir = DefaultDir]_vars

SaveSlotsUsedUp == ~CanSave

\* C22: autoRecover makes at most maxRetries attempts and returns: with
\* success exactly when the health check it made last reported healthy,
\* with failure only when the attempts are used up, whatever the starts
\* and the other steps of the attempts did.  (Termination is checked for
\* the behaviours in which the save slots of the model suffice.)
C22_AutoRecoverTerminates ==
  /\ [](recover.attempts <= recover.max)
  /\ [][(recover'.pc = "done" /\ recover.pc # "done") =>
          /\ recover'.result \in {"success", "failure"}
          /\ recover'.result = "success" <=> lastHealthCheck'.isHealthy
          /\ recover'.result = "failure" => recover'.attempts = recover'.max]_vars
  /\ (recover.pc # "idle") ~> (recover.pc = "done" \/ SaveSlotsUsedUp)

\* autoRecover returned failure after its last attempt, and the start it
\* made had failed: the entry it left is in status error
C22_Witness ==
  /\ recover.pc = "done" /\ recover.result = "failure"
  /\ recover.attempts = MaxAttempts /\ recover.max = MaxAttempts
  /\ \E k \in Keys : processes[k] # 0 /\ info[processes[k]].status = "error"

\* ---------------------------------------------------------- C24 ----
\* C24: getStatus() reports no entry as running whose process did not
\* exist when it was probed: an entry it found running with its process
\* gone is stopped from then on; and the only status it changes is that of
\* such an entry, so the status of an entry whose process exists stays
C24_StatusDemotesOnlyDead ==
  [][ret'.op = "status" =>
       LET e == ret'.ent
           dead == info[e].pid \notin alive
       IN /\ dead => ret'.status # "running" /\ info'[e].status # "running"
          /\ (dead /\ info[e].status = "running") => info'[e].status = "stopped"
          /\ \A f \in EntryIds :
                info'[f] # info[f] =>
                  /\ f = e /\ dead /\ info[f].status = "running"
                  /\ info'[f] = [info[f] EXCEPT !.status = "stopped"]]_vars

\* getStatus() found an entry running whose process was gone, made it
\* stopped and reported it as stopped
C24_Witness ==
  /\ ret.op = "status" /\ ret.was = "running" /\ ret.status = "stopped"
  /\ info[ret.ent].pid \notin alive
  /\ info[ret.ent].status = "stopped"

\* ---------------------------------------------------------- C23 ----
\* C23 as stated: when the startDevServer(k) of a restartDevServer(k)
\* begins, the stopDevServer(k) before it has returned, the process of the
\* entry it stopped no longer exists and that entry is out of the registry
C23_OldDeadBeforeNewStart ==
  [][\A c \in Calls :
       (calls[c].op = "restart" /\ calls[c].pc = "settle" /\ calls'[c].pc # "settle") =>
          LET old == calls[c].pd IN
          old # 0 => /\ info[old].pid \notin alive
                     /\ processes[calls[c].dir] # old]_vars

\* ---------------------------------------------------------- C25 ----
\* the pid the snapshot records for directory k, 0 when it records none
PersistedPid(data, k) ==
  LET state == loadState(data) IN
  IF state.kind = "object" /\ state.f["devProcesses"].p
  THEN state.f["devProcesses"].m[k].pid ELSE 0

\* restoreProcessState has returned, the save of clearDevProcessState
\* included
RestoreCompleted == restore.pc = "done" /\ ~SavePending

\* C25 as stated: once the recovery of the constructor has completed, the
\* registry holds exactly the recorded entries whose process exists, each
\* in status running, and the snapshot records no entry whose process is
\* gone
C25_RestoreKeepsOnlyLive ==
  RestoreCompleted =>
    \A k \in Keys :
       /\ processes[k] # 0 <=> (restore.dev[k].pid # 0 /\ restore.dev[k].pid \in alive)
       /\ processes[k] # 0 => /\ info[processes[k]].pid = restore.dev[k].pid
                              /\ info[processes[k]].status = "running"
       /\ PersistedPid(stateFile, k) # 0 => PersistedPid(stateFile, k) \in alive

\* ---------------------------------------------------------- C26 ----
\* C26: at most one periodic health-check timer is active, and it is the
\* one HealthChecker holds; startPeriodicHealthCheck cancels the timer of
\* the previous start, and after stopPeriodicHealthCheck none is active
C26_OnePeriodicTimer ==
  /\ [](/\ Cardinality(timers) <= 1
        /\ timers = IF healthCheckInterval = 0 THEN {} ELSE {healthCheckInterval})
  /\ [][/\ (healthCheckInterval # 0 /\ healthCheckInterval' # healthCheckInterval) =>
             healthCheckInterval \notin timers'
        /\ healthCheckInterval' = 0 => timers' = {}]_vars

\* the periodic check was started twice: the second timer is the only one
\* active, and it has fired
C26_Witness ==
  /\ healthCheckInterval = 2 /\ timers = {2}
  /\ lastHealthCheck.checked

\* ---------------------------------------------------------- C27 ----
\* the values the configuration is made of: the number read from the text
\* of a variable, or from the text of its default
ConfigNumber(text, fallback) == parseInt(OrDefault(text, fallback))
AtLeast(v, min) == ~v.nan /\ v.n >= min
Blank(text) == \A i \in 1..Len(text) : IsSpace(text[i])

\* port an integer in 1..65535, host not blank, path starting with '/',
\* the three intervals integers of at least 100
ValidConfiguration(e) ==
  LET port == ConfigNumber(e.HEALTH_PORT, <<"8", "0", "8", "0">>)
      host == OrDefault(e.HEALTH_HOST, <<"1", "2", "7", ".", "0", ".", "0", ".", "1">>)
      path == OrDefault(e.HEALTH_PATH, <<"/", "h", "e", "a", "l", "t", "h">>)
  IN /\ AtLeast(port, 1) /\ port.n <= MaxPort
     /\ ~Blank(host)
     /\ Len(path) >= 1 /\ path[1] = "/"
     /\ AtLeast(ConfigNumber(e.HEALTH_CHECK_INTERVAL, <<"3", "0", "0", "0", "0">>),
                MinInterval)
     /\ AtLeast(ConfigNumber(e.DEPENDENCY_TIMEOUT, <<"5", "0", "0", "0">>), MinInterval)
     /\ AtLeast(ConfigNumber(e.POLLING_INTERVAL, <<"1", "0", "0">>), MinInterval)

\* C27: the configuration is accepted exactly when port, host, path and
\* the three intervals are valid; otherwise validation throws, the
\* constructor of the initializer fails and no service is registered; with
\* a valid configuration the four services are pending
C27_ValidConfigOrNoService ==
  constructed # "no" =>
    /\ constructed = "ok" <=> ValidConfiguration(env)
    /\ config.threw <=> constructed = "failed"
    /\ constructed = "failed" => \A s \in Services : serviceStatus[s] = "absent"
    /\ constructed = "ok" =>
         /\ \A s \in Services : serviceStatus[s] = "pending"
         /\ config.value.healthEndpoint.port \in 1..MaxPort
         /\ config.value.pollingInterval >= MinInterval

\* a configuration at the limits was accepted: port 65535, a host with
\* blanks around it, polling interval 100; the four services are pending
C27_Witness ==
  /\ constructed = "ok"
  /\ env.HEALTH_PORT = <<"6", "5", "5", "3", "5">>
  /\ env.HEALTH_HOST = <<" ", "h", " ">>
  /\ env.POLLING_INTERVAL = <<"1", "0", "0">>
  /\ config.value.healthEndpoint.port = MaxPort
  /\ config.value.healthEndpoint.host = <<"h">>
  /\ \A s \in Services : serviceStatus[s] = "pending"

\* ---------------------------------------------------------- C30 ----
\* C30: a port parsed from the output of a child and added to the ports
\* of an entry stays among the ports of that entry; the delayed port
\* detection never takes it away
C30_ParsedPortsKept ==
  \A e \in EntryIds : info[e].parsed \subseteq info[e].ports

\* ---------------------------------------------------------- C31 ----
\* call c sends a signal in this step
Signals(c) == Len(calls'[c].sent) > Len(calls[c].sent)
\* the directory call c is about, before or after the step
CallDir(c) == IF calls'[c].dir # "" THEN calls'[c].dir ELSE calls[c].dir
\* the registry entry of directory b is added, removed, replaced or changed
EntryTouched(b) ==
  \/ processes'[b] # processes[b]
  \/ processes[b] # 0 /\ info'[processes[b]] # info[processes[b]]

\* C31: a step of a call about one directory, and an event of a child of
\* one directory, leave the registry entry of every other directory as it
\* is (none is added, removed or changed) and send no signal to the
\* process of another directory
C31_OtherKeysUntouched ==
  [][\A b \in Keys :
       /\ EntryTouched(b) =>
            /\ \A c \in Calls : calls'[c] # calls[c] => CallDir(c) = b
            /\ \A ch \in SpawnIds : pend[ch] \ pend'[ch] # {} => info[ch].dir = b
       /\ \A c \in Calls : Signals(c) /\ CallDir(c) # b =>
            /\ info[calls'[c].pd].dir # b
            /\ processes[b] # 0 => info[calls'[c].pd].pid # info[processes[b]].pid]_vars

\* a stop of directory a has returned after two signals and has removed
\* the entry of a, while directory b has a running entry whose process lives
C31_Witness ==
  /\ ret.op = "stop" /\ ret.dir = "a" /\ Len(ret.sent) = 2 /\ ret.left = 0
  /\ processes["b"] # 0
  /\ info[processes["b"]].status = "running"
  /\ info[processes["b"]].pid \in alive

\* ---------------------------------------------------------- C32 ----
\* C32: every uncaught error has its one recovery attempt, pending until
\* the grace period is over or made; the process exits only after a
\* recovery attempt has failed
C32_ExitOnlyAfterFailedRecovery ==
  /\ recoveries.errors = recoveries.timers + recoveries.made
  /\ exited # "no" => recoveries.failed > 0

\* ---------------------------------------------------------- C33 ----
\* C33: at most one saveState call is between its createLock() and its
\* removeLock() at any time
C33_OneSaveHoldsLock == Cardinality(Holders) <= 1

\* ---------------------------------------------------------- C34 ----
\* C34: whenever no saveState call is in flight, the lock file is absent
C34_NoLockWithoutSave == InFlight = {} => ~lockFile

\* ---------------------------------------------------------- C35 ----
\* C35: no update is lost between saves of different top-level keys: the
\* write of a save changes, in an existing snapshot, only the keys that
\* save was given and the timestamp, so that what another save wrote under
\* another key since this save read the file is still there after it
C35_WriteKeepsOtherKeys ==
  [][(stateFile' # stateFile /\ stateFile.kind = "object") =>
       \A f \in Fields \ {"timestamp"} :
          ~lastSave'.x[f].p => stateFile'.f[f] = stateFile.f[f]]_vars

\* ---------------------------------------------------------- C36 ----
\* C36: every child a start spawned whose process exists is the process of
\* the registry entry of its directory, unless a stop has sent it a signal
C36_NoOrphanedChild ==
  \A ch \in SpawnIds :
     (info[ch].child /\ info[ch].pid \in alive /\ ~info[ch].signalled)
        => processes[info[ch].dir] = ch

\* ------------------- restoreProcessState while startDevServer runs ----
\* The constructor does not await restoreProcessState: the tool that made
\* the supervisor calls startDevServer while loadState() is reading.  The
\* iterations of the loop await isProcessRunning, which settles at once.
RestoreLooping == restore.pc = "loop"

NextRestoreStart ==
  \/ Collect
  \/ AtFile /\ ~RestoreLooping /\ RestoreLoad
  \/ AtMicrotask /\ \E dir \in Keys : RestoreEntry(dir)
  \/ AtFile /\ ~RestoreLooping /\ RestoreClear
  \/ AtRequest /\ ~RestoreLooping /\ \E k \in CoreKeys : StartCall(1, k)
  \/ AtRequest /\ ~RestoreLooping /\ \E p \in Pids : ProcessExit(p)
  \/ AtMicrotask /\ StartSpawn(1)
  \/ AtMicrotask /\ StartHandlers(1)
  \/ AtMicrotask /\ CleanupGet(1)
  \/ AtMicrotask /\ CleanupDelete(1)
  \/ AtTick /\ ~RestoreLooping /\ \E ch \in SpawnIds : OnSpawn(ch)
  \/ AtTick /\ ~RestoreLooping /\ \E ch \in SpawnIds : OnError(ch)
  \/ AtFile /\ ~RestoreLooping /\ \E s \in Savers : SaveCreateLock(s)
  \/ AtFile /\ ~RestoreLooping /\ \E s \in Savers : SaveRead(s)
  \/ AtFile /\ ~RestoreLooping /\ \E s \in Savers : SaveWrite(s)
  \/ AtFile /\ ~RestoreLooping /\ \E s \in Savers : SaveRemoveLock(s)
  \/ AtTimer /\ ~RestoreLooping /\ WaitRunning(1)
  \/ AtTimer /\ ~RestoreLooping /\ WaitError(1)
  \/ AtTimer /\ ~RestoreLooping /\ WaitTimeout(1)
  \/ AtTimer /\ ~RestoreLooping /\ \E ch \in SpawnIds : OnExit(ch)

\* no lock file is left behind and the state file holds a record
InitRestoreStart == InitRestore /\ ~lockFile /\ stateFile.kind = "object"

SpecRestoreStart == InitRestoreStart /\ [][NextRestoreStart]_vars

\* C37: once restoreProcessState is over and a startDevServer(k) that spawned
\* a child has returned it, the child still running, the registry entry of k
\* is the object of that child.
C37_StartEntryNotReplaced ==
  (/\ restore.pc = "done"
   /\ ret.op = "start" /\ ret.res = "ok" /\ ret.spawned
   /\ info[ret.ent].pid \in alive)
  => processes[ret.dir] = ret.ent

\* ---------------------------------------------------------- C38 ----
\* C38: a dependency check of tool t that resolved found every dependency
\* of t ready, and they are ready ever after: in no state is the outcome of
\* the last check of t resolved while a dependency of t is pending,
\* initializing or failed
C38_ResolvedMeansAllReady ==
  \A t \in Tools :
     checks[t].res = "resolved" =>
        \A d \in Range(SERVICE_DEPENDENCIES(t)) : serviceStatus[d] = "ready"

\* a check of auto_recover, shared by two callers, has resolved, both of
\* its dependencies initialized once and ready
C38_Witness ==
  /\ checks["auto_recover"].res = "resolved"
  /\ checks["auto_recover"].share = 2
  /\ \A d \in {"stateManager", "healthChecker"} :
        serviceStatus[d] = "ready" /\ inits[d].count = 1

\* ---------------------------------------------------------- C39 ----
\* the devProcesses map the snapshot holds
PersistedMap(data) ==
  LET state == loadState(data) IN
  IF state.kind = "object" /\ state.f["devProcesses"].p
  THEN state.f["devProcesses"].m ELSE NoMap

\* no call is running, no save is in flight and no event of a child that
\* has handlers waits to be delivered
Quiescent ==
  /\ \A c \in Calls : CallIdle(c)
  /\ InFlight = {}
  /\ \A ch \in SpawnIds : bound[ch] > 0 => pend[ch] = {}

\* C39 as stated: when no operation and no save is in flight, the process
\* map of the snapshot equals the registry: the same directories, with the
\* same pid and status
C39_SnapshotEqualsRegistry ==
  Quiescent => PersistedMap(stateFile) = DevOf(processes, info)

\* ---------------------------------------------------------- C40 ----
\* an event of child ch is delivered to its handler in this step
Delivered(ch) == pend[ch] \ pend'[ch] # {}

\* C40 as stated: the handler of a spawn, error, exit or output event of a
\* child changes the status and the ports of no registry object but the one
\* that was created for that child
C40_EventsChangeOwnEntryOnly ==
  [][\A ch \in SpawnIds :
       Delivered(ch) =>
          \A e \in EntryIds \ {ch} :
             /\ info'[e].status = info[e].status
             /\ info'[e].ports = info[e].ports]_vars

====
